---------------------------- MODULE Spec2Model ----------------------------
(***************************************************************************)
(* BarkingMonitor: the capture-to-event pipeline of src/audio_engine.py.   *)
(*                                                                         *)
(* Time is an integer clock; TicksPerSecond clock units make one second,   *)
(* so that isoformat(timespec="seconds") really truncates.  datetime.min   *)
(* is DatetimeMin, below the clock, which starts at 0.  An audio chunk is   *)
(* named by its arrival number (the Nth delivery of the audio device); a   *)
(* sample of the ring buffer is the number of the chunk it came from, 0    *)
(* for the zeros np.zeros() put there.  The classifier is external: each   *)
(* call returns any confidence level, and is_bark as detector.py derives   *)
(* it from the threshold.                                                  *)
(***************************************************************************)
EXTENDS Integers, Sequences, FiniteSets, TLC

\* ---------------------------------------------------------------- bounds
MaxStarts == 1          \* start() calls that launch threads in one behaviour
MaxLifeStarts == 2      \* SpecLifecycle: start() calls that launch threads
MaxLifeChunks == 1      \* SpecLifecycle: chunks delivered in one behaviour
MaxDayChunks == 3       \* SpecDay: chunks delivered in one behaviour
MaxDayTime == 3         \* SpecDay: the clock stops advancing here
MaxStored == 1          \* rows of one day the sink may hold at construction
MaxIdleChunks == 2      \* SpecIdle: chunks delivered in one behaviour
MaxIdleTime == 3        \* SpecIdle: the clock stops advancing here
MaxPacedTime == 5       \* SpecPaced: the clock stops advancing here
MaxObserverEvents == 2  \* SpecObserver: stop() is not called again once the
                        \* tables hold this many events
MaxSaves == 1           \* "Save Settings" clicks in one behaviour
MaxRunTime == 2         \* Spec: the clock stops advancing here
MaxRunChunks == 2       \* Spec: chunks the device delivers in one behaviour
MaxTime == 3            \* SpecPipeline: the clock stops advancing here
MaxTicks == 4           \* SpecPipeline: chunks delivered in one behaviour
MaxChunks == 25         \* SpecChannel: chunks delivered in one behaviour
MaxWindow == 3          \* largest window_samples drawn
MaxConfidence == 2      \* confidence levels 0..MaxConfidence
MaxRequired == 2        \* largest consecutive_required drawn
MaxCooldown == 3        \* largest cooldown drawn or saved (clock units)
MaxMergeGap == 1        \* largest merge_gap_seconds drawn (clock units)
TicksPerSecond == 2     \* resolution of the clock

\* ------------------------------------------------------ program constants
QueueMaxsize == 20      \* queue.Queue(maxsize=20)
DatetimeMin == -1       \* datetime.min
DayCheckSeconds == 60   \* (now - self._last_day_check).total_seconds() >= 60

Threads == 1..(IF MaxLifeStarts > MaxStarts THEN MaxLifeStarts ELSE MaxStarts)
Confidences == 0..MaxConfidence
None == << >>

Max(a, b) == IF a >= b THEN a ELSE b
Min(a, b) == IF a <= b THEN a ELSE b

RECURSIVE SumSeq(_)
SumSeq(s) == IF s = << >> THEN 0 ELSE Head(s) + SumSeq(Tail(s))

VARIABLES
    env,                    \* the environment's bounds in this specification
    clock,                  \* datetime.now()
    config,                 \* AppConfig as held by the engine
    threshold,              \* detector.threshold
    thunder_threshold,      \* thunder_detector.threshold
    thunder_detector,       \* TRUE iff a ThunderDetector was given
    window_samples,
    hop_samples,
    stop_evt,
    pause_evt,
    listening,              \* stats.listening
    stream,                 \* self._stream: None or <<thread that opened it>>
    threads,                \* self._threads: the threads of the latest start()
    started,                \* start() calls that launched threads so far
    audio_queue,
    consecutive,
    cooldown_until,
    active_event,           \* None or <<segment>>
    thunder_consecutive,
    thunder_cooldown_until,
    active_thunder_event,
    bark_events,            \* table bark_events of the sink, in insertion order
    thunder_events,         \* table thunder_events
    today_count,
    today_thunder_count,
    current_day,            \* stats.current_day
    last_day_check,         \* self._last_day_check
    on_event_calls,         \* calls of self.on_event so far
    on_thunder_event_calls, \* calls of self.on_thunder_event so far
    s_pc,                   \* position of each _stream_worker thread
    w_pc,                   \* position of each _process_worker thread
    filled,                 \* local of _process_worker
    ring,                   \* local of _process_worker
    m_pc,                   \* position of the GUI thread inside stop()
    m_local,                \* locals start and end of the finalizer stop() runs
    delivered,              \* chunks the device has delivered to the callback
    saves,                  \* settings saved so far
    \* ---- history variables: written, never read, by the program's actions
    bark_tick,              \* what the last bark tick did
    thunder_tick,           \* what the last thunder tick did
    bark_run,               \* latest bark ticks in a row that were positive and
                            \* outside cooldown (capped at MaxRequired)
    thunder_run,
    bark_quiet_until,       \* max of t0 + cooldown in force at t0, over bark pulses
    thunder_quiet_until,
    bark_opened,            \* bark segments opened so far
    thunder_opened,         \* thunder segments opened so far
    puts,                   \* put_nowait calls of the callback
    drops,                  \* "Audio queue full; dropping chunk" warnings
    gets,                   \* chunks dequeued by analysis loops
    hops,                   \* per analysis loop: hops dequeued in this run
    calls,                  \* per analysis loop: detector.detect calls in this run
    thunder_calls,          \* per analysis loop: thunder_detector.detect calls
    at_stop                 \* what stop() found when it was called, and whether
                            \* it was left by an exception

cfgvars == <<env, config, threshold, thunder_threshold, thunder_detector,
             window_samples, hop_samples, saves>>
lifevars == <<stop_evt, pause_evt, listening, stream, threads, started, m_pc,
              m_local>>
barkvars == <<consecutive, cooldown_until, active_event, bark_events, today_count>>
thundervars == <<thunder_consecutive, thunder_cooldown_until, active_thunder_event,
                 thunder_events, today_thunder_count>>
dayvars == <<current_day, last_day_check, on_event_calls,
             on_thunder_event_calls>>
workvars == <<w_pc, filled, ring>>
tickhist == <<bark_tick, thunder_tick, bark_run, thunder_run,
              bark_quiet_until, thunder_quiet_until, bark_opened,
              thunder_opened>>
chanhist == <<puts, drops, gets>>
workhist == <<hops, calls, thunder_calls>>
vars == <<clock, cfgvars, dayvars, lifevars, audio_queue, barkvars,
          thundervars, s_pc, workvars, delivered, tickhist, chanhist, workhist, at_stop>>

\* ------------------------------------------------- detector.py: detect()
\* DetectionResult(confidence, is_bark = confidence >= self.threshold)
Detect(confidence, thr) ==
    [confidence |-> confidence, is_bark |-> confidence >= thr]

\* ------------------------------------- timestamps and finalized events
\* datetime.isoformat(timespec="seconds"): the fraction of a second is cut
IsoSeconds(t) == (t \div TicksPerSecond) * TicksPerSecond

\* float(np.mean(confidences)), kept as the fraction <<sum, count>>
Mean(confidences) == <<SumSeq(confidences), Len(confidences)>>

\* Faulty variant: the duration is the raw span, without the floor
DurationRaw(start, end, cfg) == end - start

\* duration = max((end - start).total_seconds(), self.config.window_seconds)
Duration(start, end, cfg) == Max(end - start, cfg.window_seconds)

BarkEvent(seg, cfg) ==
    [start_ts |-> IsoSeconds(seg.start),
     end_ts |-> IsoSeconds(seg.last_detection),
     duration_sec |-> Duration(seg.start, seg.last_detection, cfg),
     avg_confidence |-> Mean(seg.confidences)]

ThunderEvent(seg, cfg) ==
    [start_ts |-> IsoSeconds(seg.start),
     end_ts |-> IsoSeconds(seg.last_detection),
     duration_sec |-> Duration(seg.start, seg.last_detection, cfg),
     avg_confidence |-> Mean(seg.confidences)]

\* ------------------------------------------------ calendar days and the sink
\* The calendar day of a clock instant: day 0 until env.midnight, day 1 from
\* then on
Days == {0, 1}
DayOf(t) == IF t >= env.midnight THEN 1 ELSE 0

\* date.today().isoformat()
Today == DayOf(clock)

\* add_event: the row's day is start_dt.date() of the event's start_ts
RowDay(e) == DayOf(e.start_ts)

\* count_for_day(day): the rows of that day: those the table held when the
\* engine was built and those written since
CountForDay(events, day) ==
    env.stored[day] + Cardinality({k \in 1..Len(events) : RowDay(events[k]) = day})

\* count_thunder_for_day(day)
CountThunderForDay(events, day) ==
    env.thunder_stored[day]
      + Cardinality({k \in 1..Len(events) : RowDay(events[k]) = day})

\* Faulty variant: a new day starts both counters at zero
CheckDayChangeToZero(stats, today, count, thunder_count) ==
    IF today # stats.current_day
    THEN [current_day |-> today, today_count |-> 0, today_thunder_count |-> 0]
    ELSE stats

\* _check_day_change, on stats = (current_day, today_count,
\* today_thunder_count), given the sink's counts for today
CheckDayChange(stats, today, count, thunder_count) ==
    IF today # stats.current_day
    THEN [current_day |-> today, today_count |-> count,
          today_thunder_count |-> thunder_count]
    ELSE stats

\* Faulty variant: the periodic check runs once and never again
DayCheckDueOnce(now, last) == last = DatetimeMin

\* (now - self._last_day_check).total_seconds() >= 60; datetime.min lies
\* further back than any interval
DayCheckDue(now, last) ==
    last = DatetimeMin \/ now - last >= DayCheckSeconds * TicksPerSecond

\* Faulty variant: the new segment does not hold the pulse's confidence
NewSegmentEmpty(ts, confidence) ==
    [start |-> ts, last_detection |-> ts, confidences |-> << >>]

\* {"start": ts, "last_detection": ts, "confidences": [confidence]}
NewSegment(ts, confidence) ==
    [start |-> ts, last_detection |-> ts, confidences |-> <<confidence>>]

\* ------------------------------------------- the bark pipeline's state
\* The state one class's handlers work on, as a record: s.consecutive,
\* s.cooldown_until, s.active_event, s.events (the sink's table),
\* s.today_count, and s.pulse: whether the handler registered a confirmed
\* detection.  The handlers reach beyond their class through
\* _check_day_change: s.current_day, s.other_events (the other class's
\* table, which is counted) and s.other_count (the other class's daily
\* counter, which is re-seeded).  s.on_event_calls counts the observer's
\* notifications; s.sink_ok says whether the sink accepts the next write,
\* s.observer_ok whether the observer returns from its next notification,
\* and s.raised whether an exception of either is propagating.

\* Faulty variant: the cooldown ends one clock unit early
InCooldownEarly(now, until) == now + 1 < until

\* if now < self._cooldown_until
InCooldown(now, until) == now < until

\* Faulty variant: one positive window too few confirms
ConfirmedOffByOne(n, required) == n + 1 >= required

\* if self._consecutive >= self.config.consecutive_required
Confirmed(n, required) == n >= required

\* Faulty variant: a pulse exactly merge_gap_seconds later is not merged
WithinMergeGapStrict(ts, last_detection, cfg) ==
    ts - last_detection < cfg.merge_gap_seconds

\* (ts - last_detection).total_seconds() <= self.config.merge_gap_seconds
WithinMergeGap(ts, last_detection, cfg) ==
    ts - last_detection <= cfg.merge_gap_seconds

\* gap > self.config.merge_gap_seconds
GapExceeded(now, last_detection, cfg) ==
    now - last_detection > cfg.merge_gap_seconds

\* stats.current_day, stats.today_count and stats.today_thunder_count as the
\* record of one class holds them: its own counter and the other class's
ClassStats(s, is_bark) ==
    [current_day |-> s.current_day,
     today_count |-> IF is_bark THEN s.today_count ELSE s.other_count,
     today_thunder_count |-> IF is_bark THEN s.other_count ELSE s.today_count]

\* The record of one class after self.stats was assigned st
WithClassStats(s, st, is_bark) ==
    [s EXCEPT !.current_day = st.current_day,
              !.today_count = IF is_bark THEN st.today_count
                              ELSE st.today_thunder_count,
              !.other_count = IF is_bark THEN st.today_thunder_count
                              ELSE st.today_count]

\* self.db.add_event(...); self.stats.today_count += 1; self.on_event(event):
\* an exception of the sink leaves before the counter and the observer, an
\* exception of the observer after both
Recorded(d, event) ==
    IF d.sink_ok
    THEN [d EXCEPT !.events = Append(@, event),
                   !.today_count = @ + 1,
                   !.on_event_calls = @ + 1,
                   !.raised = ~d.observer_ok]
    ELSE [d EXCEPT !.raised = TRUE]

\* self._active_event = None, not reached when the finalizer raised
Cleared(p) == IF p.raised THEN p ELSE [p EXCEPT !.active_event = None]

\* self._active_event = {"start": ts, ...}, not reached when the finalizer
\* raised
Opened(f, ts, confidence) ==
    IF f.raised
    THEN f
    ELSE [f EXCEPT !.active_event = <<NewSegment(ts, confidence)>>,
                   !.pulse = TRUE]

\* self._check_day_change() as the bark finalizer calls it
BarkDayChecked(s) ==
    WithClassStats(s,
                   CheckDayChange(ClassStats(s, TRUE), Today,
                                  CountForDay(s.events, Today),
                                  CountThunderForDay(s.other_events, Today)),
                   TRUE)

\* Faulty variant: the event is written and counted without the day check
PersistActiveEventNoDayCheck(s, cfg) ==
    Recorded(s, BarkEvent(s.active_event[1], cfg))

\* _finalize_active_event, from self._check_day_change() up to and including
\* on_event(event); an exception of add_event leaves at that line
PersistActiveEvent(s, cfg) ==
    Recorded(BarkDayChecked(s), BarkEvent(s.active_event[1], cfg))

\* Faulty variant: the segment is cleared even when the sink refused the event
FinalizeActiveEventLossy(s, cfg) ==
    IF s.active_event = None
    THEN s
    ELSE [PersistActiveEvent(s, cfg) EXCEPT !.active_event = None]

\* _finalize_active_event
FinalizeActiveEvent(s, cfg) ==
    IF s.active_event = None
    THEN s
    ELSE Cleared(PersistActiveEvent(s, cfg))

\* Faulty variant: a pulse beyond the merge gap overwrites the open segment
\* without finalizing it
RegisterDetectionNoFlush(s, cfg, ts, confidence) ==
    IF s.active_event # None
       /\ WithinMergeGap(ts, s.active_event[1].last_detection, cfg)
    THEN [s EXCEPT !.active_event =
             <<[@[1] EXCEPT !.last_detection = ts,
                            !.confidences = Append(@, confidence)]>>,
                   !.pulse = TRUE]
    ELSE [s EXCEPT !.active_event = <<NewSegment(ts, confidence)>>,
                   !.pulse = TRUE]

\* _register_detection
RegisterDetection(s, cfg, ts, confidence) ==
    IF s.active_event # None
       /\ WithinMergeGap(ts, s.active_event[1].last_detection, cfg)
    THEN [s EXCEPT !.active_event =
             <<[@[1] EXCEPT !.last_detection = ts,
                            !.confidences = Append(@, confidence)]>>,
                   !.pulse = TRUE]
    ELSE Opened(FinalizeActiveEvent(s, cfg), ts, confidence)

\* _maybe_finalize_event
MaybeFinalizeEvent(s, cfg, now) ==
    IF s.active_event = None
    THEN s
    ELSE IF GapExceeded(now, s.active_event[1].last_detection, cfg)
         THEN FinalizeActiveEvent(s, cfg)
         ELSE s

\* self._consecutive = 0; self._cooldown_until = now + cooldown;
\* self._maybe_finalize_event(now): what follows _register_detection in
\* _handle_detection, not reached when it raised
BarkRegistered(r, cfg, now) ==
    IF r.raised
    THEN r
    ELSE MaybeFinalizeEvent(
             [r EXCEPT !.consecutive = 0,
                       !.cooldown_until = now + cfg.cooldown_seconds],
             cfg, now)

\* Faulty variant: a negative window leaves the run of positives as it is
HandleDetectionNoReset(s0, cfg, now, confidence, is_bark) ==
    LET s == [s0 EXCEPT !.pulse = FALSE] IN
    IF InCooldown(now, s.cooldown_until)
    THEN [s EXCEPT !.consecutive = 0]
    ELSE IF is_bark
         THEN IF Confirmed(s.consecutive + 1, cfg.consecutive_required)
              THEN BarkRegistered(
                       RegisterDetection([s EXCEPT !.consecutive = @ + 1],
                                         cfg, now, confidence),
                       cfg, now)
              ELSE MaybeFinalizeEvent([s EXCEPT !.consecutive = @ + 1],
                                      cfg, now)
         ELSE MaybeFinalizeEvent(s, cfg, now)

\* _handle_detection, the body of "with self._lock"
HandleDetection(s0, cfg, now, confidence, is_bark) ==
    LET s == [s0 EXCEPT !.pulse = FALSE] IN
    IF InCooldown(now, s.cooldown_until)
    THEN [s EXCEPT !.consecutive = 0]
    ELSE IF is_bark
         THEN IF Confirmed(s.consecutive + 1, cfg.consecutive_required)
              THEN BarkRegistered(
                       RegisterDetection([s EXCEPT !.consecutive = @ + 1],
                                         cfg, now, confidence),
                       cfg, now)
              ELSE MaybeFinalizeEvent([s EXCEPT !.consecutive = @ + 1],
                                      cfg, now)
         ELSE MaybeFinalizeEvent([s EXCEPT !.consecutive = 0], cfg, now)

\* ---------------------------------------- the thunder pipeline's state
\* self._check_day_change() as the thunder finalizer calls it
ThunderDayChecked(s) ==
    WithClassStats(s,
                   CheckDayChange(ClassStats(s, FALSE), Today,
                                  CountForDay(s.other_events, Today),
                                  CountThunderForDay(s.events, Today)),
                   FALSE)

\* Faulty variant: the observer is notified but the event is not counted
PersistActiveThunderEventUncounted(s, cfg) ==
    [Recorded(ThunderDayChecked(s), ThunderEvent(s.active_event[1], cfg))
       EXCEPT !.today_count = IF s.sink_ok THEN @ - 1 ELSE @]

\* _finalize_active_thunder_event, from self._check_day_change() up to and
\* including on_thunder_event(event); an exception of add_thunder_event
\* leaves at that line
PersistActiveThunderEvent(s, cfg) ==
    Recorded(ThunderDayChecked(s), ThunderEvent(s.active_event[1], cfg))

\* _finalize_active_thunder_event
FinalizeActiveThunderEvent(s, cfg) ==
    IF s.active_event = None
    THEN s
    ELSE Cleared(PersistActiveThunderEvent(s, cfg))

\* _register_thunder_detection
RegisterThunderDetection(s, cfg, ts, confidence) ==
    IF s.active_event # None
       /\ WithinMergeGap(ts, s.active_event[1].last_detection, cfg)
    THEN [s EXCEPT !.active_event =
             <<[@[1] EXCEPT !.last_detection = ts,
                            !.confidences = Append(@, confidence)]>>,
                   !.pulse = TRUE]
    ELSE Opened(FinalizeActiveThunderEvent(s, cfg), ts, confidence)

\* Faulty variant: the thunder copy closes a segment as soon as the gap
\* reaches merge_gap_seconds
MaybeFinalizeThunderEventEager(s, cfg, now) ==
    IF s.active_event = None
    THEN s
    ELSE IF now - s.active_event[1].last_detection >= cfg.merge_gap_seconds
         THEN FinalizeActiveThunderEvent(s, cfg)
         ELSE s

\* _maybe_finalize_thunder_event
MaybeFinalizeThunderEvent(s, cfg, now) ==
    IF s.active_event = None
    THEN s
    ELSE IF GapExceeded(now, s.active_event[1].last_detection, cfg)
         THEN FinalizeActiveThunderEvent(s, cfg)
         ELSE s

\* self._thunder_consecutive = 0; self._thunder_cooldown_until = now +
\* cooldown; self._maybe_finalize_thunder_event(now): what follows
\* _register_thunder_detection, not reached when it raised
ThunderRegistered(r, cfg, now) ==
    IF r.raised
    THEN r
    ELSE MaybeFinalizeThunderEvent(
             [r EXCEPT !.consecutive = 0,
                       !.cooldown_until = now + cfg.thunder_cooldown_seconds],
             cfg, now)

\* _handle_thunder_detection, the body of "with self._lock"
HandleThunderDetection(s0, cfg, now, confidence, is_thunder) ==
    LET s == [s0 EXCEPT !.pulse = FALSE] IN
    IF InCooldown(now, s.cooldown_until)
    THEN [s EXCEPT !.consecutive = 0]
    ELSE IF is_thunder
         THEN IF Confirmed(s.consecutive + 1, cfg.thunder_consecutive_required)
              THEN ThunderRegistered(
                       RegisterThunderDetection(
                           [s EXCEPT !.consecutive = @ + 1], cfg, now,
                           confidence),
                       cfg, now)
              ELSE MaybeFinalizeThunderEvent([s EXCEPT !.consecutive = @ + 1],
                                             cfg, now)
         ELSE MaybeFinalizeThunderEvent([s EXCEPT !.consecutive = 0], cfg, now)

\* The engine's fields of each class, as the record the handlers work on
BarkState ==
    [consecutive |-> consecutive, cooldown_until |-> cooldown_until,
     active_event |-> active_event, events |-> bark_events,
     today_count |-> today_count, pulse |-> FALSE,
     current_day |-> current_day, other_events |-> thunder_events,
     other_count |-> today_thunder_count, on_event_calls |-> on_event_calls,
     sink_ok |-> TRUE, observer_ok |-> TRUE, raised |-> FALSE]

ThunderState ==
    [consecutive |-> thunder_consecutive,
     cooldown_until |-> thunder_cooldown_until,
     active_event |-> active_thunder_event, events |-> thunder_events,
     today_count |-> today_thunder_count, pulse |-> FALSE,
     current_day |-> current_day, other_events |-> bark_events,
     other_count |-> today_count, on_event_calls |-> on_thunder_event_calls,
     sink_ok |-> TRUE, observer_ok |-> TRUE, raised |-> FALSE]

SetBark(s) ==
    /\ consecutive' = s.consecutive
    /\ cooldown_until' = s.cooldown_until
    /\ active_event' = s.active_event
    /\ bark_events' = s.events
    /\ today_count' = s.today_count
    /\ today_thunder_count' = s.other_count
    /\ current_day' = s.current_day
    /\ on_event_calls' = s.on_event_calls

SetThunder(s) ==
    /\ thunder_consecutive' = s.consecutive
    /\ thunder_cooldown_until' = s.cooldown_until
    /\ active_thunder_event' = s.active_event
    /\ thunder_events' = s.events
    /\ today_thunder_count' = s.today_count
    /\ today_count' = s.other_count
    /\ current_day' = s.current_day
    /\ on_thunder_event_calls' = s.on_event_calls

\* ------------------------------------------------- the bounded channel
\* Faulty variant: a queue without maxsize, which never raises queue.Full
PutUnbounded(q, chunk) ==
    [queue |-> Append(q, chunk), full |-> FALSE]

\* Faulty variant: on a full queue the oldest chunk makes room for the new one
PutDropOldest(q, chunk) ==
    IF Len(q) >= QueueMaxsize
    THEN [queue |-> Append(Tail(q), chunk), full |-> TRUE]
    ELSE [queue |-> Append(q, chunk), full |-> FALSE]

\* Faulty variant: on a full queue the new chunk replaces the newest one held
PutOverwriteNewest(q, chunk) ==
    IF Len(q) >= QueueMaxsize
    THEN [queue |-> Append(SubSeq(q, 1, Len(q) - 1), chunk), full |-> TRUE]
    ELSE [queue |-> Append(q, chunk), full |-> FALSE]

\* self._audio_queue.put_nowait(chunk): queue.Full when maxsize is reached
PutNowait(q, chunk) ==
    IF Len(q) >= QueueMaxsize
    THEN [queue |-> q, full |-> TRUE]
    ELSE [queue |-> Append(q, chunk), full |-> FALSE]

\* Some stream is open and the device calls its callback
Streaming == \E i \in Threads : s_pc[i] = "streaming"

\* Faulty variant: the callback enqueues whatever the pause flag says
AudioCallbackNoPause ==
    /\ Streaming
    /\ delivered < env.chunks
    /\ delivered' = delivered + 1
    /\ LET r == PutNowait(audio_queue, delivered + 1) IN
       /\ audio_queue' = r.queue
       /\ puts' = puts + 1
       /\ drops' = IF r.full THEN drops + 1 ELSE drops
    /\ UNCHANGED <<clock, cfgvars, dayvars, lifevars, barkvars, thundervars, s_pc,
                   workvars, tickhist, gets, workhist, at_stop>>

\* _audio_callback: one chunk delivered by the device
AudioCallback ==
    /\ Streaming
    /\ delivered < env.chunks
    /\ delivered' = delivered + 1
    /\ IF pause_evt
       THEN UNCHANGED <<audio_queue, puts, drops>>
       ELSE LET r == PutNowait(audio_queue, delivered + 1) IN
            /\ audio_queue' = r.queue
            /\ puts' = puts + 1
            /\ drops' = IF r.full THEN drops + 1 ELSE drops
    /\ UNCHANGED <<clock, cfgvars, dayvars, lifevars, barkvars, thundervars, s_pc,
                   workvars, tickhist, gets, workhist, at_stop>>

\* ------------------------------------------------- the sliding window
\* np.roll(ring, -k)
Roll(r, k) == [j \in 1..Len(r) |-> r[((j - 1 + k) % Len(r)) + 1]]

\* ring = np.roll(ring, -hop_samples); ring[-hop_samples:] = hop
InsertHop(r, chunk, hop_len) ==
    LET rolled == Roll(r, hop_len) IN
    [j \in 1..Len(r) |-> IF j > Len(r) - hop_len THEN chunk ELSE rolled[j]]

\* Faulty variant: the fill counter misses the first hop
FillLate(f, window, hop_len) ==
    IF f = 0 THEN 1 ELSE Min(window, f + hop_len - 1)

\* filled = min(self.window_samples, filled + self.hop_samples)
Fill(f, window, hop_len) == Min(window, f + hop_len)

\* Faulty variant: the window counts as filled one sample early
WindowFilledEarly(f, window) == f + 1 >= window

\* "if filled < self.window_samples: continue" is not taken
WindowFilled(f, window) == ~(f < window)

\* ------------------------------------------------ _process_worker
\* stats.current_day, stats.today_count and stats.today_thunder_count
Stats ==
    [current_day |-> current_day, today_count |-> today_count,
     today_thunder_count |-> today_thunder_count]

SetStats(st) ==
    /\ current_day' = st.current_day
    /\ today_count' = st.today_count
    /\ today_thunder_count' = st.today_thunder_count

\* self._check_day_change() as the analysis loop calls it, without the lock
PeriodicDayCheck ==
    SetStats(CheckDayChange(Stats, Today, CountForDay(bark_events, Today),
                            CountThunderForDay(thunder_events, Today)))

\* Faulty variant: the analysis loop never looks at the stop flag
WorkerLoopDeaf(i) ==
    /\ w_pc[i] = "loop"
    /\ w_pc' = [w_pc EXCEPT ![i] = "get"]
    /\ IF DayCheckDue(clock, last_day_check)
       THEN /\ PeriodicDayCheck
            /\ last_day_check' = clock
       ELSE UNCHANGED <<current_day, today_count, today_thunder_count,
                        last_day_check>>
    /\ UNCHANGED <<clock, cfgvars, on_event_calls, on_thunder_event_calls,
                   lifevars, audio_queue, consecutive, cooldown_until,
                   active_event, bark_events, thunder_consecutive,
                   thunder_cooldown_until, active_thunder_event, thunder_events,
                   s_pc, filled, ring, delivered, tickhist, chanhist, workhist,
                   at_stop>>

\* while not self._stop_evt.is_set(): the top of the loop, with the
\* periodic day check when it is due
WorkerLoop(i) ==
    /\ w_pc[i] = "loop"
    /\ w_pc' = [w_pc EXCEPT ![i] = IF stop_evt THEN "done" ELSE "get"]
    /\ IF ~stop_evt /\ DayCheckDue(clock, last_day_check)
       THEN /\ PeriodicDayCheck
            /\ last_day_check' = clock
       ELSE UNCHANGED <<current_day, today_count, today_thunder_count,
                        last_day_check>>
    /\ UNCHANGED <<clock, cfgvars, on_event_calls, on_thunder_event_calls,
                   lifevars, audio_queue, consecutive, cooldown_until,
                   active_event, bark_events, thunder_consecutive,
                   thunder_cooldown_until, active_thunder_event, thunder_events,
                   s_pc, filled, ring, delivered, tickhist, chanhist, workhist,
                   at_stop>>

\* Faulty variant: the loop takes the newest chunk of the channel, not the
\* oldest
WorkerGetNewest(i) ==
    /\ w_pc[i] = "get"
    /\ IF audio_queue = << >>
       THEN /\ w_pc' = [w_pc EXCEPT ![i] = "loop"]
            /\ UNCHANGED <<audio_queue, filled, ring, gets, hops>>
       ELSE LET f == Fill(filled[i], window_samples, hop_samples) IN
            /\ audio_queue' = SubSeq(audio_queue, 1, Len(audio_queue) - 1)
            /\ ring' = [ring EXCEPT
                          ![i] = InsertHop(@, audio_queue[Len(audio_queue)],
                                           hop_samples)]
            /\ filled' = [filled EXCEPT ![i] = f]
            /\ gets' = gets + 1
            /\ hops' = [hops EXCEPT ![i] = @ + 1]
            /\ w_pc' = [w_pc EXCEPT
                          ![i] = IF WindowFilled(f, window_samples)
                                 THEN "bark" ELSE "loop"]
    /\ UNCHANGED <<clock, cfgvars, dayvars, lifevars, barkvars, thundervars, s_pc,
                   delivered, tickhist, puts, drops, calls, thunder_calls,
                   at_stop>>

\* hop = self._audio_queue.get(timeout=0.5), then the window is advanced
WorkerGet(i) ==
    /\ w_pc[i] = "get"
    /\ IF audio_queue = << >>
       THEN /\ w_pc' = [w_pc EXCEPT ![i] = "loop"]
            /\ UNCHANGED <<audio_queue, filled, ring, gets, hops>>
       ELSE LET f == Fill(filled[i], window_samples, hop_samples) IN
            /\ audio_queue' = Tail(audio_queue)
            /\ ring' = [ring EXCEPT
                          ![i] = InsertHop(@, Head(audio_queue), hop_samples)]
            /\ filled' = [filled EXCEPT ![i] = f]
            /\ gets' = gets + 1
            /\ hops' = [hops EXCEPT ![i] = @ + 1]
            /\ w_pc' = [w_pc EXCEPT
                          ![i] = IF WindowFilled(f, window_samples)
                                 THEN "bark" ELSE "loop"]
    /\ UNCHANGED <<clock, cfgvars, dayvars, lifevars, barkvars, thundervars, s_pc,
                   delivered, tickhist, puts, drops, calls, thunder_calls,
                   at_stop>>

\* Faulty variant: the thunder pipeline is never run after the bark tick
WorkerBarkAlone(i) ==
    /\ w_pc[i] = "bark"
    /\ \E c \in env.confidences, ok \in env.sink_ok,
          obs \in env.observer_ok :
         LET result == Detect(c, threshold)
             cooling == clock < cooldown_until
         IN \E s \in {HandleDetection([BarkState EXCEPT !.sink_ok = ok,
                                                        !.observer_ok = obs],
                                      config, clock, result.confidence,
                                      result.is_bark)} :
            /\ SetBark(s)
            /\ bark_tick' = [positive |-> result.is_bark, cooling |-> cooling,
                             pulse |-> s.pulse,
                             emitted |-> Len(s.events) - Len(bark_events),
                             confidence |-> IF s.pulse THEN result.confidence
                                            ELSE 0,
                             raised |-> s.raised]
            /\ w_pc' = [w_pc EXCEPT
                          ![i] = IF s.raised THEN "done"
                                 ELSE "loop"]
            /\ bark_run' = IF result.is_bark /\ ~cooling
                           THEN Min(bark_run + 1, MaxRequired) ELSE 0
            /\ bark_quiet_until' =
                 IF s.pulse
                 THEN Max(bark_quiet_until, clock + config.cooldown_seconds)
                 ELSE bark_quiet_until
            /\ bark_opened' =
                 IF s.pulse /\ Len(s.active_event[1].confidences) = 1
                 THEN bark_opened + 1 ELSE bark_opened
    /\ calls' = [calls EXCEPT ![i] = @ + 1]
    /\ UNCHANGED <<clock, cfgvars, last_day_check, on_thunder_event_calls,
                   lifevars, audio_queue, thunder_consecutive,
                   thunder_cooldown_until, active_thunder_event, thunder_events,
                   s_pc,
                   filled, ring, delivered, thunder_tick, thunder_run,
                   thunder_quiet_until, thunder_opened, chanhist, hops,
                   thunder_calls, at_stop>>

\* result = self.detector.detect(ring); self._handle_detection(...)
WorkerBark(i) ==
    /\ w_pc[i] = "bark"
    /\ \E c \in env.confidences, ok \in env.sink_ok,
          obs \in env.observer_ok :
         LET result == Detect(c, threshold)
             cooling == clock < cooldown_until
         IN \E s \in {HandleDetection([BarkState EXCEPT !.sink_ok = ok,
                                                        !.observer_ok = obs],
                                      config, clock, result.confidence,
                                      result.is_bark)} :
            /\ SetBark(s)
            /\ bark_tick' = [positive |-> result.is_bark, cooling |-> cooling,
                             pulse |-> s.pulse,
                             emitted |-> Len(s.events) - Len(bark_events),
                             confidence |-> IF s.pulse THEN result.confidence
                                            ELSE 0,
                             raised |-> s.raised]
            /\ w_pc' = [w_pc EXCEPT
                          ![i] = IF s.raised THEN "done"
                                 ELSE IF thunder_detector THEN "thunder"
                                 ELSE "loop"]
            /\ bark_run' = IF result.is_bark /\ ~cooling
                           THEN Min(bark_run + 1, MaxRequired) ELSE 0
            /\ bark_quiet_until' =
                 IF s.pulse
                 THEN Max(bark_quiet_until, clock + config.cooldown_seconds)
                 ELSE bark_quiet_until
            /\ bark_opened' =
                 IF s.pulse /\ Len(s.active_event[1].confidences) = 1
                 THEN bark_opened + 1 ELSE bark_opened
    /\ calls' = [calls EXCEPT ![i] = @ + 1]
    /\ UNCHANGED <<clock, cfgvars, last_day_check, on_thunder_event_calls,
                   lifevars, audio_queue, thunder_consecutive,
                   thunder_cooldown_until, active_thunder_event, thunder_events,
                   s_pc,
                   filled, ring, delivered, thunder_tick, thunder_run,
                   thunder_quiet_until, thunder_opened, chanhist, hops,
                   thunder_calls, at_stop>>

\* Faulty variant: the thunder tick drops the bark class's open segment
WorkerThunderShared(i) ==
    /\ w_pc[i] = "thunder"
    /\ \E c \in env.thunder_confidences, ok \in env.sink_ok,
          obs \in env.observer_ok :
         LET result == Detect(c, thunder_threshold)
             cooling == clock < thunder_cooldown_until
         IN \E s \in {HandleThunderDetection(
                           [ThunderState EXCEPT !.sink_ok = ok,
                                               !.observer_ok = obs], config,
                           clock, result.confidence, result.is_bark)} :
            /\ SetThunder(s)
            /\ thunder_tick' = [positive |-> result.is_bark,
                                cooling |-> cooling, pulse |-> s.pulse,
                                emitted |-> Len(s.events) - Len(thunder_events),
                                confidence |-> IF s.pulse THEN result.confidence
                                               ELSE 0,
                                raised |-> s.raised]
            /\ w_pc' = [w_pc EXCEPT ![i] = IF s.raised THEN "done" ELSE "loop"]
            /\ thunder_run' = IF result.is_bark /\ ~cooling
                              THEN Min(thunder_run + 1, MaxRequired) ELSE 0
            /\ thunder_quiet_until' =
                 IF s.pulse
                 THEN Max(thunder_quiet_until,
                          clock + config.thunder_cooldown_seconds)
                 ELSE thunder_quiet_until
            /\ thunder_opened' =
                 IF s.pulse /\ Len(s.active_event[1].confidences) = 1
                 THEN thunder_opened + 1 ELSE thunder_opened
    /\ thunder_calls' = [thunder_calls EXCEPT ![i] = @ + 1]
    /\ active_event' = None
    /\ UNCHANGED <<clock, cfgvars, last_day_check, on_event_calls, lifevars,
                   audio_queue, consecutive, cooldown_until,
                   bark_events, s_pc,
                   filled, ring, delivered, bark_tick, bark_run,
                   bark_quiet_until, bark_opened, chanhist, hops, calls,
                   at_stop>>

\* thunder_result = self.thunder_detector.detect(ring);
\* self._handle_thunder_detection(...)
WorkerThunder(i) ==
    /\ w_pc[i] = "thunder"
    /\ \E c \in env.thunder_confidences, ok \in env.sink_ok,
          obs \in env.observer_ok :
         LET result == Detect(c, thunder_threshold)
             cooling == clock < thunder_cooldown_until
         IN \E s \in {HandleThunderDetection(
                           [ThunderState EXCEPT !.sink_ok = ok,
                                               !.observer_ok = obs], config,
                           clock, result.confidence, result.is_bark)} :
            /\ SetThunder(s)
            /\ thunder_tick' = [positive |-> result.is_bark,
                                cooling |-> cooling, pulse |-> s.pulse,
                                emitted |-> Len(s.events) - Len(thunder_events),
                                confidence |-> IF s.pulse THEN result.confidence
                                               ELSE 0,
                                raised |-> s.raised]
            /\ w_pc' = [w_pc EXCEPT ![i] = IF s.raised THEN "done" ELSE "loop"]
            /\ thunder_run' = IF result.is_bark /\ ~cooling
                              THEN Min(thunder_run + 1, MaxRequired) ELSE 0
            /\ thunder_quiet_until' =
                 IF s.pulse
                 THEN Max(thunder_quiet_until,
                          clock + config.thunder_cooldown_seconds)
                 ELSE thunder_quiet_until
            /\ thunder_opened' =
                 IF s.pulse /\ Len(s.active_event[1].confidences) = 1
                 THEN thunder_opened + 1 ELSE thunder_opened
    /\ thunder_calls' = [thunder_calls EXCEPT ![i] = @ + 1]
    /\ UNCHANGED <<clock, cfgvars, last_day_check, on_event_calls, lifevars,
                   audio_queue, consecutive, cooldown_until, active_event,
                   bark_events, s_pc,
                   filled, ring, delivered, bark_tick, bark_run,
                   bark_quiet_until, bark_opened, chanhist, hops, calls,
                   at_stop>>

\* ------------------------------------------------ _stream_worker
\* while not self._stop_evt.is_set(): with sd.InputStream(...) as stream
StreamLoop(i) ==
    /\ s_pc[i] = "loop"
    /\ IF stop_evt
       THEN /\ s_pc' = [s_pc EXCEPT ![i] = "done"]
            /\ UNCHANGED stream
       ELSE \E opened \in BOOLEAN :
              IF opened
              THEN /\ s_pc' = [s_pc EXCEPT ![i] = "streaming"]
                   /\ stream' = <<i>>
              ELSE /\ s_pc' = [s_pc EXCEPT ![i] = "backoff"]
                   /\ UNCHANGED stream
    /\ UNCHANGED <<clock, cfgvars, dayvars, stop_evt, pause_evt, listening, threads,
                   started, m_pc, m_local, audio_queue, barkvars, thundervars,
                   workvars,
                   delivered, tickhist, chanhist, workhist, at_stop>>

\* the inner "while not self._stop_evt.is_set(): time.sleep(0.25)" ends and
\* the with block closes the stream
StreamPoll(i) ==
    /\ s_pc[i] = "streaming"
    /\ stop_evt
    /\ s_pc' = [s_pc EXCEPT ![i] = "loop"]
    /\ UNCHANGED <<clock, cfgvars, dayvars, lifevars, audio_queue, barkvars, thundervars,
                   workvars, delivered, tickhist, chanhist, workhist, at_stop>>

\* Faulty variant: the capture loop gives up after a failure
StreamGiveUp(i) ==
    /\ s_pc[i] = "backoff"
    /\ s_pc' = [s_pc EXCEPT ![i] = "done"]
    /\ UNCHANGED <<clock, cfgvars, dayvars, lifevars, audio_queue, barkvars, thundervars,
                   workvars, delivered, tickhist, chanhist, workhist, at_stop>>

\* except Exception: time.sleep(1.0)
StreamBackoff(i) ==
    /\ s_pc[i] = "backoff"
    /\ s_pc' = [s_pc EXCEPT ![i] = "loop"]
    /\ UNCHANGED <<clock, cfgvars, dayvars, lifevars, audio_queue, barkvars, thundervars,
                   workvars, delivered, tickhist, chanhist, workhist, at_stop>>

\* ------------------------------------------------ lifecycle (GUI thread)
\* Faulty variant: start() without the "if self.stats.listening: return"
StartAlways ==
    /\ m_pc = "idle"
    /\ started < env.starts
    /\ LET id == started + 1 IN
       /\ stop_evt' = FALSE
       /\ pause_evt' = FALSE
       /\ listening' = TRUE
       /\ threads' = <<id>>
       /\ started' = id
       /\ s_pc' = [s_pc EXCEPT ![id] = "loop"]
       /\ w_pc' = [w_pc EXCEPT ![id] = "loop"]
       /\ filled' = [filled EXCEPT ![id] = 0]
       /\ ring' = [ring EXCEPT ![id] = [j \in 1..window_samples |-> 0]]
       /\ hops' = [hops EXCEPT ![id] = 0]
       /\ calls' = [calls EXCEPT ![id] = 0]
       /\ thunder_calls' = [thunder_calls EXCEPT ![id] = 0]
    /\ UNCHANGED <<clock, cfgvars, dayvars, stream, m_pc, m_local, audio_queue, barkvars,
                   thundervars, delivered, tickhist, chanhist, at_stop>>

\* start(): a no-op when listening, else two new threads
Start ==
    /\ m_pc = "idle"
    /\ listening \/ started < env.starts
    /\ IF listening
       THEN UNCHANGED <<stop_evt, pause_evt, listening, threads, started,
                        s_pc, workvars, workhist>>
       ELSE LET id == started + 1 IN
            /\ stop_evt' = FALSE
            /\ pause_evt' = FALSE
            /\ listening' = TRUE
            /\ threads' = <<id>>
            /\ started' = id
            /\ s_pc' = [s_pc EXCEPT ![id] = "loop"]
            /\ w_pc' = [w_pc EXCEPT ![id] = "loop"]
            /\ filled' = [filled EXCEPT ![id] = 0]
            /\ ring' = [ring EXCEPT ![id] = [j \in 1..window_samples |-> 0]]
            /\ hops' = [hops EXCEPT ![id] = 0]
            /\ calls' = [calls EXCEPT ![id] = 0]
            /\ thunder_calls' = [thunder_calls EXCEPT ![id] = 0]
    /\ UNCHANGED <<clock, cfgvars, dayvars, stream, m_pc, m_local, audio_queue, barkvars,
                   thundervars, delivered, tickhist, chanhist, at_stop>>

\* pause()
Pause ==
    /\ m_pc = "idle"
    /\ pause_evt' = TRUE
    /\ listening' = FALSE
    /\ UNCHANGED <<clock, cfgvars, dayvars, stop_evt, stream, threads, started, m_pc,
                   m_local,
                   audio_queue, barkvars, thundervars, s_pc, workvars,
                   delivered, tickhist, chanhist, workhist, at_stop>>

\* resume()
Resume ==
    /\ m_pc = "idle"
    /\ pause_evt' = FALSE
    /\ listening' = TRUE
    /\ UNCHANGED <<clock, cfgvars, dayvars, stop_evt, stream, threads, started, m_pc,
                   m_local,
                   audio_queue, barkvars, thundervars, s_pc, workvars,
                   delivered, tickhist, chanhist, workhist, at_stop>>

\* stop(): self._stop_evt.set(); self.stats.listening = False
StopBegin ==
    /\ m_pc = "idle"
    /\ stop_evt' = TRUE
    /\ listening' = FALSE
    /\ m_pc' = "finalize"
    /\ at_stop' = [bark |-> active_event, thunder |-> active_thunder_event,
                   bark_events |-> Len(bark_events),
                   thunder_events |-> Len(thunder_events),
                   queue |-> audio_queue, raised |-> FALSE]
    /\ UNCHANGED <<clock, cfgvars, dayvars, pause_evt, stream, threads, started, m_local,
                   audio_queue, barkvars, thundervars, s_pc, workvars,
                   delivered, tickhist, chanhist, workhist>>

\* stop() runs its finalizers without the engine's lock, so the analysis
\* loop's ticks fall between their statements. Subscripting
\* self._active_event once a tick has set it to None raises TypeError, which
\* leaves stop() at once
StopRaise ==
    /\ m_pc' = "idle"
    /\ m_local' = [start |-> 0, end |-> 0]
    /\ at_stop' = [at_stop EXCEPT !.raised = TRUE]

\* stop(): self._finalize_active_event(): "if not self._active_event: return"
StopFinalize ==
    /\ m_pc = "finalize"
    /\ m_pc' = IF active_event = None THEN "finalize_thunder" ELSE "read_start"
    /\ UNCHANGED <<clock, cfgvars, dayvars, stop_evt, pause_evt, listening, stream,
                   threads, started, m_local, audio_queue, barkvars, thundervars,
                   s_pc, workvars, delivered, tickhist, chanhist, workhist,
                   at_stop>>

\* start = self._active_event["start"]
StopReadStart ==
    /\ m_pc = "read_start"
    /\ IF active_event = None
       THEN StopRaise
       ELSE /\ m_pc' = "read_end"
            /\ m_local' = [m_local EXCEPT !.start = active_event[1].start]
            /\ UNCHANGED at_stop
    /\ UNCHANGED <<clock, cfgvars, dayvars, stop_evt, pause_evt, listening, stream,
                   threads, started, audio_queue, barkvars, thundervars, s_pc,
                   workvars, delivered, tickhist, chanhist, workhist>>

\* end = self._active_event["last_detection"]
StopReadEnd ==
    /\ m_pc = "read_end"
    /\ IF active_event = None
       THEN StopRaise
       ELSE /\ m_pc' = "persist"
            /\ m_local' = [m_local EXCEPT !.end = active_event[1].last_detection]
            /\ UNCHANGED at_stop
    /\ UNCHANGED <<clock, cfgvars, dayvars, stop_evt, pause_evt, listening, stream,
                   threads, started, audio_queue, barkvars, thundervars, s_pc,
                   workvars, delivered, tickhist, chanhist, workhist>>

\* The mean is taken over self._active_event["confidences"] as it is now; the
\* event is built from the locals, written to the sink, counted and handed
\* to on_event
StopPersist ==
    /\ m_pc = "persist"
    /\ IF active_event = None
       THEN /\ StopRaise
            /\ UNCHANGED <<bark_events, today_count, today_thunder_count,
                           current_day, on_event_calls>>
       ELSE \E ok \in env.sink_ok, obs \in env.observer_ok :
              \E s \in {PersistActiveEvent(
                           [BarkState EXCEPT
                              !.sink_ok = ok,
                              !.observer_ok = obs,
                              !.active_event =
                                 <<[start |-> m_local.start,
                                    last_detection |-> m_local.end,
                                    confidences |->
                                      active_event[1].confidences]>>],
                           config)} :
                 /\ bark_events' = s.events
                 /\ today_count' = s.today_count
                 /\ today_thunder_count' = s.other_count
                 /\ current_day' = s.current_day
                 /\ on_event_calls' = s.on_event_calls
                 /\ IF s.raised
                    THEN StopRaise
                    ELSE /\ m_pc' = "clear"
                         /\ m_local' = [start |-> 0, end |-> 0]
                         /\ UNCHANGED at_stop
    /\ UNCHANGED <<clock, cfgvars, last_day_check, on_thunder_event_calls,
                   stop_evt, pause_evt, listening, stream,
                   threads, started, audio_queue, consecutive, cooldown_until,
                   active_event, thunder_consecutive, thunder_cooldown_until,
                   active_thunder_event, thunder_events, s_pc, workvars,
                   delivered, tickhist, chanhist, workhist>>

\* self._active_event = None
StopClear ==
    /\ m_pc = "clear"
    /\ m_pc' = "finalize_thunder"
    /\ active_event' = None
    /\ UNCHANGED <<clock, cfgvars, dayvars, stop_evt, pause_evt, listening, stream,
                   threads, started, m_local, audio_queue, consecutive,
                   cooldown_until, bark_events, today_count, thundervars, s_pc,
                   workvars, delivered, tickhist, chanhist, workhist, at_stop>>

\* stop(): self._finalize_active_thunder_event(), statement by statement as
\* for the bark segment
StopFinalizeThunder ==
    /\ m_pc = "finalize_thunder"
    /\ m_pc' = IF active_thunder_event = None THEN "join" ELSE "read_thunder_start"
    /\ UNCHANGED <<clock, cfgvars, dayvars, stop_evt, pause_evt, listening, stream,
                   threads, started, m_local, audio_queue, barkvars, thundervars,
                   s_pc, workvars, delivered, tickhist, chanhist, workhist,
                   at_stop>>

StopReadThunderStart ==
    /\ m_pc = "read_thunder_start"
    /\ IF active_thunder_event = None
       THEN StopRaise
       ELSE /\ m_pc' = "read_thunder_end"
            /\ m_local' = [m_local EXCEPT !.start = active_thunder_event[1].start]
            /\ UNCHANGED at_stop
    /\ UNCHANGED <<clock, cfgvars, dayvars, stop_evt, pause_evt, listening, stream,
                   threads, started, audio_queue, barkvars, thundervars, s_pc,
                   workvars, delivered, tickhist, chanhist, workhist>>

StopReadThunderEnd ==
    /\ m_pc = "read_thunder_end"
    /\ IF active_thunder_event = None
       THEN StopRaise
       ELSE /\ m_pc' = "persist_thunder"
            /\ m_local' = [m_local EXCEPT
                             !.end = active_thunder_event[1].last_detection]
            /\ UNCHANGED at_stop
    /\ UNCHANGED <<clock, cfgvars, dayvars, stop_evt, pause_evt, listening, stream,
                   threads, started, audio_queue, barkvars, thundervars, s_pc,
                   workvars, delivered, tickhist, chanhist, workhist>>

StopPersistThunder ==
    /\ m_pc = "persist_thunder"
    /\ IF active_thunder_event = None
       THEN /\ StopRaise
            /\ UNCHANGED <<thunder_events, today_thunder_count, today_count,
                           current_day, on_thunder_event_calls>>
       ELSE \E ok \in env.sink_ok, obs \in env.observer_ok :
              \E s \in {PersistActiveThunderEvent(
                           [ThunderState EXCEPT
                              !.sink_ok = ok,
                              !.observer_ok = obs,
                              !.active_event =
                                 <<[start |-> m_local.start,
                                    last_detection |-> m_local.end,
                                    confidences |->
                                      active_thunder_event[1].confidences]>>],
                           config)} :
                 /\ thunder_events' = s.events
                 /\ today_thunder_count' = s.today_count
                 /\ today_count' = s.other_count
                 /\ current_day' = s.current_day
                 /\ on_thunder_event_calls' = s.on_event_calls
                 /\ IF s.raised
                    THEN StopRaise
                    ELSE /\ m_pc' = "clear_thunder"
                         /\ m_local' = [start |-> 0, end |-> 0]
                         /\ UNCHANGED at_stop
    /\ UNCHANGED <<clock, cfgvars, last_day_check, on_event_calls,
                   stop_evt, pause_evt, listening, stream,
                   threads, started, audio_queue, thunder_consecutive,
                   thunder_cooldown_until, active_thunder_event, consecutive,
                   cooldown_until, active_event, bark_events, s_pc,
                   workvars, delivered, tickhist, chanhist, workhist>>

StopClearThunder ==
    /\ m_pc = "clear_thunder"
    /\ m_pc' = "join"
    /\ active_thunder_event' = None
    /\ UNCHANGED <<clock, cfgvars, dayvars, stop_evt, pause_evt, listening, stream,
                   threads, started, m_local, audio_queue, thunder_consecutive,
                   thunder_cooldown_until, thunder_events, today_thunder_count,
                   barkvars, s_pc, workvars, delivered, tickhist, chanhist,
                   workhist, at_stop>>

\* stop(): t.join(timeout=2.0) for each thread, which returns when the
\* thread has exited or the timeout has passed; then the stream is released
StopJoin ==
    /\ m_pc = "join"
    /\ m_pc' = "idle"
    /\ stream' = None
    /\ UNCHANGED <<clock, cfgvars, dayvars, stop_evt, pause_evt, listening, threads,
                   started, m_local, audio_queue, barkvars, thundervars, s_pc,
                   workvars, delivered, tickhist, chanhist, workhist, at_stop>>

\* gui.py _save_settings: the cooldowns are updated while running (the
\* thresholds are saved as they are)
SaveSettings ==
    /\ m_pc = "idle"
    /\ saves < MaxSaves
    /\ saves' = saves + 1
    /\ \E cd \in env.cooldowns, tcd \in env.thunder_cooldowns :
         config' = [config EXCEPT !.cooldown_seconds = cd,
                                  !.thunder_cooldown_seconds = tcd]
    /\ UNCHANGED <<env, clock, threshold, thunder_threshold, thunder_detector,
                   window_samples, hop_samples, dayvars,
                   lifevars, audio_queue, barkvars, thundervars, s_pc, workvars,
                   delivered, tickhist, chanhist, workhist, at_stop>>

\* time passes
Tick ==
    /\ clock < env.time
    /\ clock' = clock + 1
    /\ UNCHANGED <<cfgvars, dayvars, lifevars, audio_queue, barkvars, thundervars, s_pc,
                   workvars, delivered, tickhist, chanhist, workhist, at_stop>>

\* ------------------------------------------------ construction
\* AppConfig, in clock units and samples
Configs(required, cooldowns, thunder_required, thunder_cooldowns, gaps, windows) ==
    {[sample_rate |-> 1,
      window_seconds |-> wh[1], hop_seconds |-> wh[2],
      consecutive_required |-> cr, cooldown_seconds |-> cd,
      thunder_consecutive_required |-> tcr, thunder_cooldown_seconds |-> tcd,
      merge_gap_seconds |-> gap] :
        cr \in required, cd \in cooldowns, tcr \in thunder_required,
        tcd \in thunder_cooldowns, gap \in gaps, wh \in windows}

NoTick == [positive |-> FALSE, cooling |-> FALSE, pulse |-> FALSE,
           emitted |-> 0, confidence |-> 0, raised |-> FALSE]

\* AudioEngine.__init__, in one of the given setups: the environment's
\* bounds, the configuration loaded and whether a ThunderDetector is given
Construct(setups) ==
    /\ \E su \in setups :
         /\ env = su.env
         /\ config = su.config
         /\ thunder_detector = su.thunder_detector
    /\ clock = 0
    /\ threshold = 1
    /\ thunder_threshold = 1
    /\ window_samples = config.sample_rate * config.window_seconds
    /\ hop_samples = config.sample_rate * config.hop_seconds
    /\ stop_evt = FALSE
    /\ pause_evt = FALSE
    /\ listening = FALSE
    /\ stream = None
    /\ threads = << >>
    /\ started = 0
    /\ audio_queue = << >>
    /\ consecutive = 0
    /\ cooldown_until = DatetimeMin
    /\ active_event = None
    /\ thunder_consecutive = 0
    /\ thunder_cooldown_until = DatetimeMin
    /\ active_thunder_event = None
    /\ bark_events = << >>
    /\ thunder_events = << >>
    /\ today_count = CountForDay(bark_events, Today)
    /\ today_thunder_count = CountThunderForDay(thunder_events, Today)
    /\ current_day = Today
    /\ last_day_check = DatetimeMin
    /\ on_event_calls = 0
    /\ on_thunder_event_calls = 0
    /\ s_pc = [i \in Threads |-> "off"]
    /\ w_pc = [i \in Threads |-> "off"]
    /\ filled = [i \in Threads |-> 0]
    /\ ring = [i \in Threads |-> [j \in 1..window_samples |-> 0]]
    /\ m_pc = "idle"
    /\ delivered = 0
    /\ saves = 0
    /\ bark_tick = NoTick
    /\ thunder_tick = NoTick
    /\ bark_run = 0
    /\ thunder_run = 0
    /\ bark_quiet_until = DatetimeMin
    /\ thunder_quiet_until = DatetimeMin
    /\ bark_opened = 0
    /\ thunder_opened = 0
    /\ puts = 0
    /\ drops = 0
    /\ gets = 0
    /\ hops = [i \in Threads |-> 0]
    /\ calls = [i \in Threads |-> 0]
    /\ thunder_calls = [i \in Threads |-> 0]
    /\ m_local = [start |-> 0, end |-> 0]
    /\ at_stop = [bark |-> None, thunder |-> None, bark_events |-> 0,
                  thunder_events |-> 0, queue |-> << >>, raised |-> FALSE]

\* An environment: how many chunks the device delivers, how far the clock
\* runs, the confidences each classifier may return, the cooldowns the
\* user may save and how many times start() launches threads.  Unless a
\* specification says otherwise midnight lies beyond the end of the
\* behaviour, the sink's tables start empty, the sink accepts every
\* write and the observers return from every notification.
Env(chunks, time, confidences, thunder_confidences, cooldowns, thunder_cooldowns) ==
    [starts |-> MaxStarts,
     chunks |-> chunks, time |-> time, confidences |-> confidences,
     thunder_confidences |-> thunder_confidences, cooldowns |-> cooldowns,
     thunder_cooldowns |-> thunder_cooldowns,
     midnight |-> time + 1, stored |-> [d \in Days |-> 0],
     thunder_stored |-> [d \in Days |-> 0], sink_ok |-> {TRUE},
     observer_ok |-> {TRUE}]

Silence == {0}

\* ------------------------------------------------ specifications
\* Spec: the whole engine: every lifecycle call, stop() and both loops
\* interleaved, both classifiers live, one hop per window, short behaviours.
RunSetups ==
    {[env |-> Env(MaxRunChunks, MaxRunTime, {0, 1}, {0, 1}, {1}, {1}),
      config |-> c, thunder_detector |-> TRUE] :
        c \in Configs({1}, {1}, {1}, {1}, {1}, {<<1, 1>>})}

Init == Construct(RunSetups)

Next ==
    \/ Start
    \/ Pause
    \/ Resume
    \/ StopBegin
    \/ StopFinalize
    \/ StopReadStart
    \/ StopReadEnd
    \/ StopPersist
    \/ StopClear
    \/ StopFinalizeThunder
    \/ StopReadThunderStart
    \/ StopReadThunderEnd
    \/ StopPersistThunder
    \/ StopClearThunder
    \/ StopJoin
    \/ Tick
    \/ AudioCallback
    \/ \E i \in Threads : StreamLoop(i)
    \/ \E i \in Threads : StreamPoll(i)
    \/ \E i \in Threads : StreamBackoff(i)
    \/ \E i \in Threads : WorkerLoop(i)
    \/ \E i \in Threads : WorkerGet(i)
    \/ \E i \in Threads : WorkerBark(i)
    \/ \E i \in Threads : WorkerThunder(i)

Spec == Init /\ [][Next]_vars

\* SpecPipeline: one run of the loops, never stopped or paused, under every
\* drawn configuration, with settings saved while running.  One class is
\* heard in a behaviour (the other classifier returns 0.0 throughout), with
\* or without a thunder detector.
Required == 1..MaxRequired
Cooldowns == {1, MaxCooldown}
MergeGaps == {MaxMergeGap}

PipelineSetups ==
    {[env |-> Env(MaxTicks, MaxTime, Confidences, Silence, Cooldowns, {1}),
      config |-> c, thunder_detector |-> t] :
        c \in Configs(Required, Cooldowns, {1}, {1}, MergeGaps, {<<1, 1>>}),
        t \in BOOLEAN}
    \cup
    {[env |-> Env(MaxTicks, MaxTime, Silence, Confidences, {1}, Cooldowns),
      config |-> c, thunder_detector |-> TRUE] :
        c \in Configs({1}, {1}, Required, Cooldowns, MergeGaps, {<<1, 1>>})}

InitPipeline == Construct(PipelineSetups)

NextPipeline ==
    \/ Start
    \/ SaveSettings
    \/ Tick
    \/ AudioCallback
    \/ \E i \in Threads : StreamLoop(i)
    \/ \E i \in Threads : StreamBackoff(i)
    \/ \E i \in Threads : WorkerLoop(i)
    \/ \E i \in Threads : WorkerGet(i)
    \/ \E i \in Threads : WorkerBark(i)
    \/ \E i \in Threads : WorkerThunder(i)

SpecPipeline == InitPipeline /\ [][NextPipeline]_vars

\* SpecChannel: one run of the loops in silence, with as many chunks as
\* overflow the channel, under every drawn window and hop size.
Windows == {<<w, h>> : w \in 1..MaxWindow, h \in 1..MaxWindow}

ChannelSetups ==
    {[env |-> Env(MaxChunks, 0, Silence, Silence, {1}, {1}),
      config |-> c, thunder_detector |-> t] :
        c \in Configs({1}, {1}, {1}, {1}, {1}, {wh \in Windows : wh[2] <= wh[1]}),
        t \in BOOLEAN}

InitChannel == Construct(ChannelSetups)

NextChannel ==
    \/ Start
    \/ AudioCallback
    \/ \E i \in Threads : StreamLoop(i)
    \/ \E i \in Threads : StreamBackoff(i)
    \/ \E i \in Threads : WorkerLoop(i)
    \/ \E i \in Threads : WorkerGet(i)
    \/ \E i \in Threads : WorkerBark(i)
    \/ \E i \in Threads : WorkerThunder(i)

SpecChannel == InitChannel /\ [][NextChannel]_vars

\* SpecLifecycle: start, pause, resume and stop in any order, with a second
\* start(), both loops of each generation and a silent room (no segment is
\* ever open, so stop()'s finalizers return at their first line).
LifecycleSetups ==
    {[env |-> [Env(MaxLifeChunks, 0, Silence, Silence, {1}, {1})
                 EXCEPT !.starts = MaxLifeStarts],
      config |-> c, thunder_detector |-> TRUE] :
        c \in Configs({1}, {1}, {1}, {1}, {1}, {<<1, 1>>})}

InitLifecycle == Construct(LifecycleSetups)

NextLifecycle ==
    \/ Start
    \/ Pause
    \/ Resume
    \/ StopBegin
    \/ StopFinalize
    \/ StopFinalizeThunder
    \/ StopJoin
    \/ AudioCallback
    \/ \E i \in Threads : StreamLoop(i)
    \/ \E i \in Threads : StreamPoll(i)
    \/ \E i \in Threads : StreamBackoff(i)
    \/ \E i \in Threads : WorkerLoop(i)
    \/ \E i \in Threads : WorkerGet(i)
    \/ \E i \in Threads : WorkerBark(i)
    \/ \E i \in Threads : WorkerThunder(i)

SpecLifecycle == InitLifecycle /\ [][NextLifecycle]_vars

\* SpecLifecycleFair: SpecLifecycle with every thread scheduled fairly: a
\* step that a capture or analysis loop can take is eventually taken (the
\* sleeps and the queue's get(timeout=0.5) all return).
FairLifecycle ==
    \A i \in Threads :
      /\ WF_vars(StreamLoop(i))
      /\ WF_vars(StreamPoll(i))
      /\ WF_vars(StreamBackoff(i))
      /\ WF_vars(WorkerLoop(i))
      /\ WF_vars(WorkerGet(i))
      /\ WF_vars(WorkerBark(i))
      /\ WF_vars(WorkerThunder(i))

SpecLifecycleFair == InitLifecycle /\ [][NextLifecycle]_vars /\ FairLifecycle

\* SpecDay: one run of the loops across midnight, never stopped or paused,
\* with both classes heard, a sink that may refuse a write and tables that
\* may hold rows of either day when the engine is built.  Midnight falls on
\* the first whole second.
StoredRows == [Days -> 0..MaxStored]

DaySetups ==
    {[env |-> [Env(MaxDayChunks, MaxDayTime, {0, 1}, {0, 1}, {1}, {1})
                 EXCEPT !.midnight = TicksPerSecond,
                        !.stored = st,
                        !.thunder_stored = [d \in Days |-> tst],
                        !.sink_ok = BOOLEAN],
      config |-> c, thunder_detector |-> TRUE] :
        c \in Configs({1}, {1}, {1}, {1}, {1}, {<<1, 1>>}),
        st \in StoredRows, tst \in {0, MaxStored}}

InitDay == Construct(DaySetups)

NextDay ==
    \/ Start
    \/ Tick
    \/ AudioCallback
    \/ \E i \in Threads : StreamLoop(i)
    \/ \E i \in Threads : StreamBackoff(i)
    \/ \E i \in Threads : WorkerLoop(i)
    \/ \E i \in Threads : WorkerGet(i)
    \/ \E i \in Threads : WorkerBark(i)
    \/ \E i \in Threads : WorkerThunder(i)

SpecDay == InitDay /\ [][NextDay]_vars

\* SpecQuiet: one run of the loops in which no chunk ever arrives (the
\* device fails to open, or it opens and delivers nothing), across midnight
\* and for as long as one interval of the periodic day check after it.
QuietTime == TicksPerSecond + DayCheckSeconds * TicksPerSecond

QuietSetups ==
    {[env |-> [Env(0, QuietTime, Silence, Silence, {1}, {1})
                 EXCEPT !.midnight = TicksPerSecond,
                        !.stored = [d \in Days |-> d * MaxStored],
                        !.thunder_stored = [d \in Days |-> d * MaxStored]],
      config |-> c, thunder_detector |-> TRUE] :
        c \in Configs({1}, {1}, {1}, {1}, {1}, {<<1, 1>>})}

InitQuiet == Construct(QuietSetups)

NextQuiet ==
    \/ Start
    \/ Tick
    \/ \E i \in Threads : StreamLoop(i)
    \/ \E i \in Threads : StreamBackoff(i)
    \/ \E i \in Threads : WorkerLoop(i)
    \/ \E i \in Threads : WorkerGet(i)

\* Time passes, and the analysis loop is scheduled: its get(timeout=0.5)
\* returns
FairQuiet ==
    /\ WF_vars(Tick)
    /\ \A i \in Threads : WF_vars(WorkerLoop(i)) /\ WF_vars(WorkerGet(i))

SpecQuiet == InitQuiet /\ [][NextQuiet]_vars /\ FairQuiet

\* SpecIdle: one run of the loops, paused and resumed at will, in which the
\* device delivers a few chunks and then nothing more while time goes on.
\* Time passes and both loops are scheduled fairly; nothing obliges the
\* device to deliver a chunk or the user to resume.
IdleSetups ==
    {[env |-> Env(MaxIdleChunks, MaxIdleTime, {0, 1}, {0, 1}, {1}, {1}),
      config |-> c, thunder_detector |-> TRUE] :
        c \in Configs({1}, {1}, {1}, {1}, {1}, {<<1, 1>>})}

InitIdle == Construct(IdleSetups)

NextIdle ==
    \/ Start
    \/ Pause
    \/ Resume
    \/ Tick
    \/ AudioCallback
    \/ \E i \in Threads : StreamLoop(i)
    \/ \E i \in Threads : StreamBackoff(i)
    \/ \E i \in Threads : WorkerLoop(i)
    \/ \E i \in Threads : WorkerGet(i)
    \/ \E i \in Threads : WorkerBark(i)
    \/ \E i \in Threads : WorkerThunder(i)

FairIdle ==
    /\ WF_vars(Tick)
    /\ \A i \in Threads :
         /\ WF_vars(StreamLoop(i))
         /\ WF_vars(StreamBackoff(i))
         /\ WF_vars(WorkerLoop(i))
         /\ WF_vars(WorkerGet(i))
         /\ WF_vars(WorkerBark(i))
         /\ WF_vars(WorkerThunder(i))

SpecIdle == InitIdle /\ [][NextIdle]_vars /\ FairIdle

\* SpecPaced: one run of the loops in which the device delivers one chunk
\* per clock unit and the analysis loop keeps up, so that the ticks of a
\* class fall at strictly increasing times; a pause drops chunks and so
\* leaves gaps between ticks.  At least two positives are required and the
\* cooldown, as loaded and as saved while running, is never shorter than the
\* merge gap.  One class is heard in a behaviour.
PacedRequired == 2..(MaxRequired + 1)
PacedGaps == 1..(MaxMergeGap + 1)
PacedCooldowns(gap) == {cd \in 1..MaxCooldown : cd >= gap}

PacedSetups ==
    {[env |-> Env(MaxPacedTime + 1, MaxPacedTime, {0, 1}, Silence,
                  PacedCooldowns(c.merge_gap_seconds), {c.merge_gap_seconds}),
      config |-> c, thunder_detector |-> TRUE] :
        c \in {x \in Configs(PacedRequired, 1..MaxCooldown, {2}, PacedGaps, PacedGaps,
                             {<<1, 1>>}) :
                 /\ x.cooldown_seconds >= x.merge_gap_seconds
                 /\ x.thunder_cooldown_seconds = x.merge_gap_seconds}}
    \cup
    {[env |-> Env(MaxPacedTime + 1, MaxPacedTime, Silence, {0, 1},
                  {c.merge_gap_seconds}, PacedCooldowns(c.merge_gap_seconds)),
      config |-> c, thunder_detector |-> TRUE] :
        c \in {x \in Configs({2}, PacedGaps, PacedRequired, 1..MaxCooldown, PacedGaps,
                             {<<1, 1>>}) :
                 /\ x.thunder_cooldown_seconds >= x.merge_gap_seconds
                 /\ x.cooldown_seconds = x.merge_gap_seconds}}

InitPaced == Construct(PacedSetups)

\* The chunk of this clock unit is delivered (and dropped if intake is
\* paused)
PacedCallback == delivered = clock /\ AudioCallback

\* The next clock unit begins once the chunk of this one has been delivered
\* and, if it was enqueued, processed by both pipelines
PacedTick ==
    /\ delivered > clock
    /\ audio_queue = << >>
    /\ \A i \in Threads : w_pc[i] \notin {"bark", "thunder"}
    /\ Tick

NextPaced ==
    \/ Start
    \/ Pause
    \/ Resume
    \/ SaveSettings
    \/ PacedTick
    \/ PacedCallback
    \/ \E i \in Threads : StreamLoop(i)
    \/ \E i \in Threads : StreamBackoff(i)
    \/ \E i \in Threads : WorkerLoop(i)
    \/ \E i \in Threads : WorkerGet(i)
    \/ \E i \in Threads : WorkerBark(i)
    \/ \E i \in Threads : WorkerThunder(i)

SpecPaced == InitPaced /\ [][NextPaced]_vars

\* SpecObserver: the whole engine as in Spec, never paused, with observers
\* that may raise when they are notified of an event
ObserverSetups ==
    {[env |-> [Env(MaxRunChunks, MaxRunTime, {0, 1}, {0, 1}, {1}, {1})
                 EXCEPT !.observer_ok = BOOLEAN],
      config |-> c, thunder_detector |-> TRUE] :
        c \in Configs({1}, {1}, {1}, {1}, {1}, {<<1, 1>>})}

InitObserver == Construct(ObserverSetups)

\* stop(), called while the tables hold fewer than MaxObserverEvents events
ObserverStop ==
    /\ Len(bark_events) + Len(thunder_events) < MaxObserverEvents
    /\ StopBegin

NextObserver ==
    \/ Start
    \/ ObserverStop
    \/ StopFinalize
    \/ StopReadStart
    \/ StopReadEnd
    \/ StopPersist
    \/ StopClear
    \/ StopFinalizeThunder
    \/ StopReadThunderStart
    \/ StopReadThunderEnd
    \/ StopPersistThunder
    \/ StopClearThunder
    \/ StopJoin
    \/ Tick
    \/ AudioCallback
    \/ \E i \in Threads : StreamLoop(i)
    \/ \E i \in Threads : StreamPoll(i)
    \/ \E i \in Threads : StreamBackoff(i)
    \/ \E i \in Threads : WorkerLoop(i)
    \/ \E i \in Threads : WorkerGet(i)
    \/ \E i \in Threads : WorkerBark(i)
    \/ \E i \in Threads : WorkerThunder(i)

SpecObserver == InitObserver /\ [][NextObserver]_vars

\* ================================================== properties
\* A step in which an analysis loop ran its bark (thunder) tick
BarkTicked == \E i \in Threads : w_pc[i] = "bark" /\ w_pc'[i] # "bark"
ThunderTicked == \E i \in Threads : w_pc[i] = "thunder" /\ w_pc'[i] # "thunder"

\* C1 Debounce floor: a tick of a class emits a confirmed pulse only if it
\* and the consecutive_required - 1 ticks processed just before it were all
\* classified positive and all outside cooldown (so with
\* consecutive_required = 2 a positive window followed by a negative one
\* yields no pulse).
DebounceFloor ==
    /\ bark_tick.pulse => bark_run >= config.consecutive_required
    /\ thunder_tick.pulse => thunder_run >= config.thunder_consecutive_required

\* C1 witness: a bark pulse confirmed under consecutive_required = 2
DebounceFloorWitness ==
    /\ bark_tick.pulse
    /\ config.consecutive_required = 2
    /\ bark_run = 2

\* C2 Cooldown suppression: after a pulse of a class at t0, under the
\* cooldown in force at t0, no tick of that class with
\* now < t0 + cooldown emits a pulse, whatever the classifier returns.
CooldownSuppression ==
    [][/\ (BarkTicked /\ bark_tick'.pulse) => clock >= bark_quiet_until
       /\ (ThunderTicked /\ thunder_tick'.pulse) => clock >= thunder_quiet_until]_vars

\* C2 witness: a positive bark window inside the cooldown of an earlier
\* pulse, suppressed, after the cooldown setting was lowered meanwhile
CooldownSuppressionWitness ==
    /\ bark_tick.positive
    /\ bark_tick.cooling
    /\ ~bark_tick.pulse
    /\ clock + 1 = bark_quiet_until
    /\ clock >= 1
    /\ config.cooldown_seconds = 1

\* What the sink received for a segment, with the timestamps as the claim
\* of C3 states them (exact) and as isoformat(timespec="seconds") gives them
SpansExactly(e, seg) ==
    e.start_ts = seg.start /\ e.end_ts = seg.last_detection

SpansToTheSecond(e, seg, cfg) ==
    /\ e.start_ts = (seg.start \div TicksPerSecond) * TicksPerSecond
    /\ e.end_ts = (seg.last_detection \div TicksPerSecond) * TicksPerSecond
    /\ e.duration_sec = IF seg.last_detection - seg.start >= cfg.window_seconds
                        THEN seg.last_detection - seg.start
                        ELSE cfg.window_seconds

\* The merge step of C3: a pulse at most merge_gap_seconds after the last
\* detection extends the open segment and emits nothing
MergeStep(ticked, tick, seg, seg_after, events, events_after) ==
    (/\ ticked
     /\ tick.pulse
     /\ seg # None
     /\ clock - seg[1].last_detection <= config.merge_gap_seconds)
    => /\ seg_after = <<[start |-> seg[1].start,
                         last_detection |-> clock,
                         confidences |-> Append(seg[1].confidences,
                                                tick.confidence)]>>
       /\ events_after = events

\* C3 as claimed: the merge step, and a merged segment that started on a
\* whole second is finalized as one event with start and end at the first
\* and the last pulse (pulses at 0 s and 1.5 s: start 0, end 1.5).
MergeSpansExactly ==
    [][/\ MergeStep(BarkTicked, bark_tick', active_event, active_event',
                    bark_events, bark_events')
       /\ (/\ Len(bark_events') > Len(bark_events)
           /\ active_event # None
           /\ Len(active_event[1].confidences) >= 2
           /\ active_event[1].start % TicksPerSecond = 0)
          => /\ Len(bark_events') = Len(bark_events) + 1
             /\ SpansExactly(bark_events'[Len(bark_events')], active_event[1])]_vars

\* C3 as amended: the merge step, and every segment is finalized as one
\* event whose start_ts and end_ts are the first and the last pulse cut to
\* whole seconds and whose duration_sec is the exact span, floored at
\* window_seconds (pulses at 0 s and 1.5 s: start 0, end 1, duration 1.5).
MergeSpansToTheSecond ==
    [][/\ MergeStep(BarkTicked, bark_tick', active_event, active_event',
                    bark_events, bark_events')
       /\ MergeStep(ThunderTicked, thunder_tick', active_thunder_event,
                    active_thunder_event', thunder_events, thunder_events')
       /\ Len(bark_events') > Len(bark_events)
          => /\ active_event # None
             /\ bark_events' = Append(bark_events, bark_events'[Len(bark_events')])
             /\ SpansToTheSecond(bark_events'[Len(bark_events')],
                                 active_event[1], config)
       /\ Len(thunder_events') > Len(thunder_events)
          => /\ active_thunder_event # None
             /\ thunder_events' =
                  Append(thunder_events, thunder_events'[Len(thunder_events')])
             /\ SpansToTheSecond(thunder_events'[Len(thunder_events')],
                                 active_thunder_event[1], config)]_vars

\* C3 witness: two pulses half a second apart, merged, are in the sink as
\* one event
MergeWitness ==
    /\ Len(bark_events) = 1
    /\ bark_events[1].avg_confidence[2] = 2
    /\ bark_events[1].start_ts = 0
    /\ bark_events[1].end_ts = 0
    /\ active_event = None
    /\ config.merge_gap_seconds = 1

\* C4 Split: a pulse more than merge_gap_seconds after the last detection
\* finalizes the open segment as its own event and opens a new segment
\* that starts at the pulse.
SplitStep(ticked, tick, seg, seg_after, events, events_after) ==
    (/\ ticked
     /\ tick.pulse
     /\ seg # None
     /\ clock - seg[1].last_detection > config.merge_gap_seconds)
    => /\ Len(events_after) = Len(events) + 1
       /\ SubSeq(events_after, 1, Len(events)) = events
       /\ SpansToTheSecond(events_after[Len(events_after)], seg[1], config)
       /\ events_after[Len(events_after)].avg_confidence[2] =
            Len(seg[1].confidences)
       /\ seg_after = <<[start |-> clock, last_detection |-> clock,
                         confidences |-> <<tick.confidence>>]>>

Split ==
    [][/\ SplitStep(BarkTicked, bark_tick', active_event, active_event',
                    bark_events, bark_events')
       /\ SplitStep(ThunderTicked, thunder_tick', active_thunder_event,
                    active_thunder_event', thunder_events, thunder_events')]_vars

\* C4 witness: a thunder pulse that split: it emitted the earlier segment
\* and is itself the start of the open one
SplitWitness ==
    /\ thunder_tick.pulse
    /\ thunder_tick.emitted = 1
    /\ active_thunder_event # None
    /\ active_thunder_event[1].start = clock
    /\ Len(active_thunder_event[1].confidences) = 1
    /\ thunder_events[Len(thunder_events)].end_ts + config.merge_gap_seconds < clock

\* The latest stop() has run its flush of the bark (the thunder) segment, or
\* has been left before it could
StopReturned == stop_evt /\ m_pc = "idle"
BarkFlushed == stop_evt /\ m_pc \in {"finalize_thunder", "join", "idle"}
ThunderFlushed == stop_evt /\ m_pc \in {"join", "idle"}

\* The segment that was open when stop() was called is in the sink, as an
\* event emitted since the call
EmittedSince(seg, events, n) ==
    seg # None =>
      \E k \in (n + 1)..Len(events) :
        events[k].start_ts = (seg[1].start \div TicksPerSecond) * TicksPerSecond

\* C5 Flush on stop: a segment open when stop() is called is finalized and in
\* the sink once stop() is past its flush of that class, for both classes,
\* whether or not its merge gap has elapsed.
FlushOnStop ==
    /\ BarkFlushed => EmittedSince(at_stop.bark, bark_events, at_stop.bark_events)
    /\ ThunderFlushed =>
         EmittedSince(at_stop.thunder, thunder_events, at_stop.thunder_events)

\* C6 No event lost on shutdown: once stop() has returned and every analysis
\* loop has exited, no class holds an open segment.
NoSegmentAfterShutdown ==
    (StopReturned /\ \A i \in Threads : w_pc[i] \in {"off", "done"})
    => active_event = None /\ active_thunder_event = None

\* The chunks first..last in arrival order
Arrivals(first, last) == [j \in 1..(last - first + 1) |-> first + j - 1]

\* C7 Bounded channel: the channel never holds more than its capacity; the
\* capture callback can always complete a delivery, whatever the channel
\* holds; and with no consumer draining, n enqueues give max(0, n - 20) drop
\* signals.
BoundedChannel ==
    /\ Len(audio_queue) <= QueueMaxsize
    /\ (Streaming /\ delivered < env.chunks) => ENABLED AudioCallback
    /\ gets = 0 => drops = Max(0, puts - QueueMaxsize)

\* C7 witness: 25 chunks enqueued, none dequeued, 5 drop signals
BoundedChannelWitness ==
    /\ puts = 25
    /\ gets = 0
    /\ drops = 5
    /\ Len(audio_queue) = QueueMaxsize

\* C8 Drop-newest: a delivery made while the channel is full discards the
\* incoming chunk; the channel's contents and their order are unchanged and
\* one drop is signalled.
DropNewest ==
    [][(/\ delivered' = delivered + 1
        /\ ~pause_evt
        /\ Len(audio_queue) = QueueMaxsize)
       => /\ audio_queue' = audio_queue
          /\ drops' = drops + 1]_vars

\* C8 witness: chunks were dropped on a full channel both before and after the
\* analysis loop took chunks out, and the channel is full again
DropNewestWitness ==
    /\ drops >= 2
    /\ gets >= 1
    /\ Len(audio_queue) = QueueMaxsize
    /\ audio_queue[QueueMaxsize] > QueueMaxsize + 1

\* C9 as stated: after 25 enqueues with no consumer draining, the channel
\* holds the most recent 20 chunks in arrival order, 6..25.
RetainsMostRecent ==
    (gets = 0 /\ puts = 25) => audio_queue = Arrivals(6, 25)

\* C9 amended: after n >= 20 enqueues with no consumer draining, the channel
\* holds the first 20 chunks in arrival order (1..20 for n = 25); the later
\* ones are the dropped ones.
RetainsEarliest ==
    (gets = 0 /\ puts >= QueueMaxsize) => audio_queue = Arrivals(1, QueueMaxsize)

\* C9 witness: 25 chunks delivered to the channel with no consumer draining
RetainsWitness ==
    /\ delivered = 25
    /\ puts = 25
    /\ gets = 0
    /\ Head(audio_queue) = 1

\* ceil(window_samples / hop_samples)
HopsToFill == (window_samples + hop_samples - 1) \div hop_samples

\* C10 Cold start: in a run of the analysis loop the first
\* ceil(window_samples / hop_samples) - 1 hops dequeued give no classifier
\* call, the next hop gives exactly one call of each classifier in use, and a
\* window handed to a classifier holds no sample of the initial zero fill.
ColdStart ==
    \A i \in Threads :
      /\ hops[i] < HopsToFill =>
           /\ calls[i] = 0
           /\ thunder_calls[i] = 0
           /\ w_pc[i] \notin {"bark", "thunder"}
      /\ hops[i] = HopsToFill =>
           /\ calls[i] = (IF w_pc[i] = "bark" THEN 0 ELSE 1)
           /\ thunder_calls[i] =
                (IF thunder_detector /\ w_pc[i] \notin {"bark", "thunder"}
                 THEN 1 ELSE 0)
      /\ w_pc[i] \in {"bark", "thunder"} =>
           \A j \in 1..Len(ring[i]) : ring[i][j] # 0

\* C10 witness: a window of 3 samples fed by hops of 2 has had its second hop
\* and its first classification
ColdStartWitness ==
    /\ window_samples = 3
    /\ hop_samples = 2
    /\ \E i \in Threads : hops[i] = 2 /\ calls[i] = 1 /\ w_pc[i] = "loop"

\* The step is stop()'s write of the bark (thunder) event
StopPersisted == m_pc = "persist" /\ m_pc' = "clear"
StopPersistedThunder == m_pc = "persist_thunder" /\ m_pc' = "clear_thunder"

\* The event e is well formed and was built from the times start and end
BuiltFrom(e, start, end, cfg) ==
    /\ e.end_ts >= e.start_ts
    /\ e.duration_sec >= cfg.window_seconds
    /\ e.start_ts = (start \div TicksPerSecond) * TicksPerSecond
    /\ e.end_ts = (end \div TicksPerSecond) * TicksPerSecond
    /\ e.duration_sec = (IF end - start > cfg.window_seconds
                         THEN end - start ELSE cfg.window_seconds)

\* In a step that writes events of one class, each of them is well formed and
\* built from the start and last_detection the finalizer read: those of the
\* segment open before a tick, or the locals of the finalizer stop() runs
EventsWellFormed(events, events_after, seg, by_stop) ==
    \A k \in (Len(events) + 1)..Len(events_after) :
      IF by_stop
      THEN BuiltFrom(events_after[k], m_local.start, m_local.end, config)
      ELSE /\ seg # None
           /\ BuiltFrom(events_after[k], seg[1].start, seg[1].last_detection,
                        config)

\* C11 Every finalized event written to the sink, of either class and on every
\* finalization path (gap timeout, split, stop flush), has end_ts >= start_ts
\* and duration_sec >= window_seconds, with
\* duration_sec = max(last_detection - start, window_seconds).
FinalizedEventShape ==
    [][/\ EventsWellFormed(bark_events, bark_events', active_event,
                           StopPersisted)
       /\ EventsWellFormed(thunder_events, thunder_events',
                           active_thunder_event, StopPersistedThunder)]_vars

\* C11 witness: since stop() was called the sink has received a thunder
\* event written by a tick, with the floor as its duration, and one written
\* by stop()'s flush, with a longer span; a bark event was written as well
FinalizedEventShapeWitness ==
    /\ m_pc = "clear_thunder"
    /\ Len(bark_events) > at_stop.bark_events
    /\ at_stop.thunder_events = 0
    /\ Len(thunder_events) = 2
    /\ thunder_events[1].duration_sec = config.window_seconds
    /\ thunder_events[2].duration_sec > config.window_seconds

\* In this step the open segment seg of a class stops being that class's
\* open segment: the field is cleared or holds a segment with another start
SegmentEnds(seg, seg_after) ==
    /\ seg # None
    /\ seg_after = None \/ seg_after[1].start # seg[1].start

\* The events e and f are the same record: the same timestamps and duration
\* and the same mean confidence (kept as a fraction)
SameEvent(e, f) ==
    /\ e.start_ts = f.start_ts
    /\ e.end_ts = f.end_ts
    /\ e.duration_sec = f.duration_sec
    /\ e.avg_confidence[1] * f.avg_confidence[2]
         = f.avg_confidence[1] * e.avg_confidence[2]

\* C12 A class's open segment is never overwritten or discarded: in any step
\* in which the open segment of a class ends (the field is cleared or a new
\* segment is opened), the sink holds the event of that segment, with every
\* pulse merged into it.
NoSegmentDiscarded ==
    [][/\ SegmentEnds(active_event, active_event') =>
            \E k \in 1..Len(bark_events') :
              SameEvent(bark_events'[k], BarkEvent(active_event[1], config))
       /\ SegmentEnds(active_thunder_event, active_thunder_event') =>
            \E k \in 1..Len(thunder_events') :
              SameEvent(thunder_events'[k],
                        ThunderEvent(active_thunder_event[1], config))]_vars

\* C13 After a tick of a class in which the window was classified negative or
\* the cooldown was active (now < cooldown_until), and after a tick that
\* produced a confirmed pulse, the class's consecutive_hits is 0.
ConsecutiveReset ==
    [][/\ (/\ BarkTicked
           /\ \/ ~bark_tick'.positive
              \/ clock < cooldown_until
              \/ bark_tick'.pulse)
          => consecutive' = 0
       /\ (/\ ThunderTicked
           /\ \/ ~thunder_tick'.positive
              \/ clock < thunder_cooldown_until
              \/ thunder_tick'.pulse)
          => thunder_consecutive' = 0]_vars

\* C13 witness: with two positives required and no pulse so far, the second
\* tick of a run was a negative one outside cooldown and the count is 0
ConsecutiveResetWitness ==
    /\ config.consecutive_required = 2
    /\ \E i \in Threads : calls[i] = 2
    /\ bark_run = 0
    /\ ~bark_tick.positive
    /\ ~bark_tick.cooling
    /\ consecutive = 0
    /\ cooldown_until = DatetimeMin

\* The open segment seg has outlived the merge gap at time now
Overdue(seg, now, cfg) ==
    /\ seg # None
    /\ now - seg[1].last_detection > cfg.merge_gap_seconds

\* C14 The merge-gap check runs on every tick, ticks inside cooldown included:
\* after a tick of a class at time now, the class has no open segment with
\* now - last_detection > merge_gap_seconds.
GapCheckedEveryTick ==
    [][/\ BarkTicked => ~Overdue(active_event', clock, config)
       /\ ThunderTicked => ~Overdue(active_thunder_event', clock, config)]_vars

\* The capture loops (analysis loops) that this step launches
LaunchedCapture == {i \in Threads : s_pc[i] \in {"off", "done"} /\ s_pc'[i] = "loop"}
LaunchedAnalysis == {i \in Threads : w_pc[i] \in {"off", "done"} /\ w_pc'[i] = "loop"}

\* C15 start launches threads only when the engine is not listening, and then
\* it clears the stop and pause flags, marks listening and launches exactly
\* one capture loop and one analysis loop, leaving the channel and the
\* debounce and segment state of both classes as they are; while listening is
\* set no step launches a thread.
StartEffect ==
    [][/\ (LaunchedCapture # {} \/ LaunchedAnalysis # {} \/ started' # started)
          => /\ ~listening
             /\ ~stop_evt'
             /\ ~pause_evt'
             /\ listening'
             /\ started' = started + 1
             /\ threads' = <<started'>>
             /\ LaunchedCapture = {started'}
             /\ LaunchedAnalysis = {started'}
             /\ UNCHANGED <<audio_queue, barkvars, thundervars>>]_vars

\* C15 witness: after a stop() that both loops obeyed, start() has just
\* launched the two loops of the second generation
StartEffectWitness ==
    /\ started = 2
    /\ listening
    /\ ~stop_evt
    /\ ~pause_evt
    /\ threads = <<2>>
    /\ s_pc = <<"done", "loop">>
    /\ w_pc = <<"done", "loop">>

\* The capture loops (analysis loops) that have been launched and have not
\* exited
AliveCapture == {i \in Threads : s_pc[i] \notin {"off", "done"}}
AliveAnalysis == {i \in Threads : w_pc[i] \notin {"off", "done"}}

\* C16 Single producer, single consumer: whatever start, pause, resume and
\* stop calls were made, at most one capture loop and at most one analysis
\* loop are alive at the same time.
SingleProducerConsumer ==
    /\ Cardinality(AliveCapture) <= 1
    /\ Cardinality(AliveAnalysis) <= 1

\* The chunks held in a sequence
Held(q) == {q[j] : j \in 1..Len(q)}

\* The device delivers a chunk in this step
Delivers == delivered' = delivered + 1

\* C17 While the pause flag is set a delivered chunk is discarded at the
\* callback and the channel is left as it is; a chunk delivered with the flag
\* clear is enqueued (when there is room); and the only chunk that ever
\* enters the channel is the one being delivered with the flag clear, the only
\* chunk that ever enters a window is the one at the head of the channel, so
\* a chunk delivered during a pause is never enqueued or classified later.
PauseDiscards ==
    [][/\ (Delivers /\ pause_evt) => audio_queue' = audio_queue
       /\ (Delivers /\ ~pause_evt /\ Len(audio_queue) < QueueMaxsize)
            => audio_queue' = Append(audio_queue, delivered')
       /\ \A c \in Held(audio_queue') \ Held(audio_queue) :
            Delivers /\ ~pause_evt /\ c = delivered'
       /\ \A i \in Threads :
            \A c \in (Held(ring'[i]) \ Held(ring[i])) \ {0} :
              audio_queue # << >> /\ c = Head(audio_queue)]_vars

\* C17 witness: the first chunk was delivered during a pause and the second
\* after resume; only the second is in the channel
PauseDiscardsWitness ==
    /\ delivered = 2
    /\ puts = 1
    /\ gets = 0
    /\ audio_queue = <<2>>
    /\ ~pause_evt
    /\ started = 1

AllExited == AliveCapture = {} /\ AliveAnalysis = {}

\* C19 Cooperative termination: once the stop flag is set, either start()
\* clears it again or every capture loop and every analysis loop eventually
\* exits, whatever the channel holds and whether the device fails or the
\* engine is paused.
CooperativeTermination == stop_evt ~> (~stop_evt \/ AllExited)

\* C19 witness: the engine was stopped while paused with a chunk still in the
\* channel, and both loops have exited
CooperativeTerminationWitness ==
    /\ stop_evt
    /\ pause_evt
    /\ audio_queue # << >>
    /\ started = 1
    /\ s_pc[1] = "done"
    /\ w_pc[1] = "done"

\* C20 De-duplication: each opened segment yields at most one event at the
\* sink and is counted at most once, however the analysis loop's finalization
\* and stop()'s flush interleave: the events written and the count of the day
\* never exceed the segments opened.
NoDoublePersist ==
    /\ Len(bark_events) <= bark_opened
    /\ today_count <= bark_opened
    /\ Len(thunder_events) <= thunder_opened
    /\ today_thunder_count <= thunder_opened

\* A step in which the analysis loop ran its periodic day check
PeriodicChecked == last_day_check' # last_day_check

\* A step in which a bark (thunder) tick entered the finalizer, which runs
\* the day check before it writes
BarkFinalizing == BarkTicked /\ (bark_tick'.emitted = 1 \/ bark_tick'.raised)
ThunderFinalizing ==
    ThunderTicked /\ (thunder_tick'.emitted = 1 \/ thunder_tick'.raised)

\* What a day check leaves when it runs in this state, the finalizer then
\* counting the given number of new events of each class
DayCheckEffect(emitted, thunder_emitted) ==
    IF Today # current_day
    THEN /\ current_day' = Today
         /\ today_count' = CountForDay(bark_events, Today) + emitted
         /\ today_thunder_count' =
              CountThunderForDay(thunder_events, Today) + thunder_emitted
    ELSE /\ current_day' = current_day
         /\ today_count' = today_count + emitted
         /\ today_thunder_count' = today_thunder_count + thunder_emitted

\* C21 Day rollover: a rollover check that finds the calendar day different
\* from the tracked day makes the tracked day the current day and sets each
\* class's daily counter to the sink's stored count for the new day (not to
\* zero); a check on an unchanged day leaves the tracked day and both counters
\* as they are.  The check runs at the top of the analysis loop and inside
\* each finalizer, which then counts its event.
DayRollover ==
    [][/\ PeriodicChecked => DayCheckEffect(0, 0)
       /\ BarkFinalizing => DayCheckEffect(bark_tick'.emitted, 0)
       /\ ThunderFinalizing => DayCheckEffect(0, thunder_tick'.emitted)]_vars

\* C21 witness: the periodic check found the new day and seeded the bark
\* counter with the row the sink already held for it
DayRolloverWitness ==
    /\ current_day = 1
    /\ last_day_check >= env.midnight
    /\ env.stored[1] = 1
    /\ env.stored[0] = 0
    /\ bark_events = << >>
    /\ today_count = 1

\* What the finalizer of one class leaves when the sink refuses its event
RefusedEffect(seg, seg_after, events, events_after, count_after, seeded,
              notified, notified_after) ==
    /\ seg # None
    /\ seg_after = seg
    /\ events_after = events
    /\ count_after = seeded
    /\ notified_after = notified

\* C22 Sink failure keeps the event data: when the write of a finalized event
\* fails, the class's open segment (start, last_detection, confidences) is
\* held unchanged afterwards, the daily counter is not incremented (it is
\* what the day check left) and the observer is not notified, so the segment
\* is still there to be finalized again.
SinkFailureKeeps ==
    [][/\ (BarkTicked /\ bark_tick'.raised) =>
            RefusedEffect(active_event, active_event', bark_events,
                          bark_events', today_count',
                          IF Today # current_day
                          THEN CountForDay(bark_events, Today)
                          ELSE today_count,
                          on_event_calls, on_event_calls')
       /\ (ThunderTicked /\ thunder_tick'.raised) =>
            RefusedEffect(active_thunder_event, active_thunder_event',
                          thunder_events, thunder_events', today_thunder_count',
                          IF Today # current_day
                          THEN CountThunderForDay(thunder_events, Today)
                          ELSE today_thunder_count,
                          on_thunder_event_calls, on_thunder_event_calls')]_vars

\* C22 witness: the sink refused a bark segment of two merged pulses at its
\* gap timeout; the segment is held, nothing was written, counted or notified
SinkFailureKeepsWitness ==
    /\ bark_tick.raised
    /\ active_event # None
    /\ Len(active_event[1].confidences) = 2
    /\ bark_events = << >>
    /\ on_event_calls = 0
    /\ today_count = env.stored[current_day]
    /\ \E i \in Threads : w_pc[i] = "done"

\* C23 The debounce and segment state of each class (consecutive hits,
\* cooldown_until, the open segment) is written only by the analysis loop:
\* every step that changes it is a tick of that class, and no step of the
\* thread that calls stop() does.
OnlyAnalysisLoopTouches ==
    [][/\ <<consecutive, cooldown_until, active_event>>'
            # <<consecutive, cooldown_until, active_event>> => BarkTicked
       /\ <<thunder_consecutive, thunder_cooldown_until, active_thunder_event>>'
            # <<thunder_consecutive, thunder_cooldown_until,
                active_thunder_event>> => ThunderTicked]_vars

\* window_samples / hop_samples, for a hop that divides the window
HopsPerWindow == window_samples \div hop_samples
WholeHops == window_samples % hop_samples = 0

\* C24 as stated: in the cold-start phase the first
\* window_samples / hop_samples hops produce no classification output (with
\* a window of 2 hops neither the first nor the second hop is classified).
ColdStartWholeWindow ==
    \A i \in Threads :
      (WholeHops /\ hops[i] <= HopsPerWindow) =>
        /\ calls[i] = 0
        /\ thunder_calls[i] = 0
        /\ w_pc[i] \notin {"bark", "thunder"}

\* C24 amended: the first window_samples / hop_samples - 1 hops produce no
\* classification output and hop number window_samples / hop_samples, which
\* fills the window, is classified (with a window of 2 hops the first hop is
\* not classified and the second is).
ColdStartUntilFilled ==
    \A i \in Threads :
      WholeHops =>
        /\ hops[i] < HopsPerWindow =>
             /\ calls[i] = 0
             /\ thunder_calls[i] = 0
             /\ w_pc[i] \notin {"bark", "thunder"}
        /\ hops[i] = HopsPerWindow => (w_pc[i] = "bark" \/ calls[i] = 1)

\* C24 witness: a window of 2 hops has taken its second hop and the bark
\* classifier has been called on it
ColdStartUntilFilledWitness ==
    /\ window_samples = 2
    /\ hop_samples = 1
    /\ \E i \in Threads : hops[i] = 2 /\ calls[i] = 1

\* C25 Whenever the day-rollover counters are updated (the tracked day
\* changes and the counters are re-seeded), every class's open segment has
\* been finalized first: no segment that was open before the step is still
\* open, as it was, after it (steps in which the sink refuses a write set
\* aside).
FinalizedBeforeRollover ==
    [][(/\ current_day' # current_day
        /\ ~(BarkTicked /\ bark_tick'.raised)
        /\ ~(ThunderTicked /\ thunder_tick'.raised)) =>
         /\ (active_event' = None \/ active_event' # active_event)
         /\ (active_thunder_event' = None
             \/ active_thunder_event' # active_thunder_event)]_vars

\* A step that writes the event of a segment begun on day 0 after the
\* calendar day has become day 1
SpansMidnight(seg, events, events_after) ==
    /\ seg # None
    /\ DayOf(seg[1].start) = 0
    /\ Today = 1
    /\ Len(events_after) = Len(events) + 1

\* C26 An event whose segment started on day D and is finalized after the
\* calendar day has become D+1 is stored by the sink under day D but
\* increments the counter of the bucket active at finalize time: after the
\* finalization the tracked day is D+1 and the class's today counter is the
\* sink's count for D+1 plus one.
MidnightAttribution ==
    [][/\ SpansMidnight(active_event, bark_events, bark_events') =>
            /\ RowDay(bark_events'[Len(bark_events')]) = 0
            /\ current_day' = 1
            /\ today_count' = CountForDay(bark_events', 1) + 1
       /\ SpansMidnight(active_thunder_event, thunder_events, thunder_events') =>
            /\ RowDay(thunder_events'[Len(thunder_events')]) = 0
            /\ current_day' = 1
            /\ today_thunder_count' =
                 CountThunderForDay(thunder_events', 1) + 1]_vars

\* C26 witness: a thunder segment begun before midnight was written after
\* it, by the finalizer that found the new day: the sink holds one row of
\* day 1 and one of day 0, and the counter reads 2
MidnightAttributionWitness ==
    /\ thunder_tick.emitted = 1
    /\ Len(thunder_events) = 1
    /\ RowDay(thunder_events[1]) = 0
    /\ env.thunder_stored[1] = 1
    /\ env.thunder_stored[0] = 1
    /\ current_day = 1
    /\ last_day_check < env.midnight
    /\ today_thunder_count = 2
    /\ CountThunderForDay(thunder_events, 1) = 1
    /\ CountThunderForDay(thunder_events, 0) = 2

\* What one successful finalization of a class does: one event more in the
\* class's table, built from the segment that was open; the class's counter,
\* as the day check left it, one higher; the observer notified once; and
\* the segment cleared, or replaced by the one the splitting pulse opens
FinalizedOnce(tick, seg, seg_after, events, events_after, seeded, count_after,
              notified, notified_after) ==
    tick.emitted >= 1 =>
      /\ seg # None
      /\ Len(events_after) = Len(events) + 1
      /\ SubSeq(events_after, 1, Len(events)) = events
      /\ events_after[Len(events_after)].start_ts = IsoSeconds(seg[1].start)
      /\ count_after = seeded + 1
      /\ notified_after = notified + 1
      /\ IF tick.pulse
         THEN seg_after = <<NewSegment(clock, tick.confidence)>>
         ELSE seg_after = None

\* C27 Each successful finalization of a class's segment persists exactly
\* one event to the sink for that class, increments that class's daily
\* counter by exactly one, notifies the observer exactly once and clears the
\* open segment; and a step that neither finalizes nor re-seeds leaves
\* the counter and the notifications as they are, so that while the day does
\* not change the counter is its value at the last seeding plus the events
\* persisted since.
FinalizationEffect ==
    [][/\ BarkTicked =>
            FinalizedOnce(bark_tick', active_event, active_event', bark_events,
                          bark_events',
                          IF Today # current_day
                          THEN CountForDay(bark_events, Today) ELSE today_count,
                          today_count', on_event_calls, on_event_calls')
       /\ ThunderTicked =>
            FinalizedOnce(thunder_tick', active_thunder_event,
                          active_thunder_event', thunder_events, thunder_events',
                          IF Today # current_day
                          THEN CountThunderForDay(thunder_events, Today)
                          ELSE today_thunder_count,
                          today_thunder_count', on_thunder_event_calls,
                          on_thunder_event_calls')
       /\ (current_day' = current_day /\ bark_events' = bark_events) =>
            /\ today_count' = today_count
            /\ on_event_calls' = on_event_calls
       /\ (current_day' = current_day /\ thunder_events' = thunder_events) =>
            /\ today_thunder_count' = today_thunder_count
            /\ on_thunder_event_calls' = on_thunder_event_calls
       /\ ~BarkTicked => bark_events' = bark_events
       /\ ~ThunderTicked => thunder_events' = thunder_events]_vars

\* C27 witness: one segment of each class has been finalized, the thunder
\* segment last and by its gap timeout: one row and one notification for
\* each class, each counter one above the seed of the day, no thunder
\* segment open
FinalizationEffectWitness ==
    /\ thunder_tick.emitted = 1
    /\ ~thunder_tick.pulse
    /\ active_thunder_event = None
    /\ Len(thunder_events) = 1
    /\ on_thunder_event_calls = 1
    /\ Len(bark_events) = 1
    /\ on_event_calls = 1
    /\ current_day = 1
    /\ env.thunder_stored[1] = 1
    /\ today_thunder_count = 2
    /\ today_count = env.stored[1] + 1

\* C28 While the analysis loop is running and no audio chunk ever arrives, a
\* change of calendar day is still eventually observed: the tracked day and
\* both daily counters are eventually updated, without any chunk having been
\* dequeued.
RolloverInSilence ==
    (started = 1 /\ Today # current_day)
      ~> (/\ current_day = Today
          /\ today_count = CountForDay(bark_events, Today)
          /\ today_thunder_count = CountThunderForDay(thunder_events, Today)
          /\ gets = 0)

\* C28 witness: the analysis loop, which had run its day check before
\* midnight, ran it again one interval later and found the new day, with
\* nothing delivered or dequeued
RolloverInSilenceWitness ==
    /\ current_day = 1
    /\ last_day_check >= DayCheckSeconds * TicksPerSecond
    /\ last_day_check < env.midnight + DayCheckSeconds * TicksPerSecond
    /\ today_count = MaxStored
    /\ today_thunder_count = MaxStored
    /\ delivered = 0
    /\ gets = 0
    /\ clock = env.time

\* The ticks a run of the analysis loop owes after its hops so far: one for
\* each hop from the one that filled the window
TicksDue(i) == Max(0, hops[i] - (HopsToFill - 1))

\* C29 After cold start every dequeued hop produces exactly one tick: one
\* bark classification with its debounce/segment step and then, if a thunder
\* detector is configured, one thunder classification with its step; the
\* bark pipeline completes before the thunder pipeline starts on the same
\* window, and both have run before the next hop is taken.
OneTickPerHop ==
    \A i \in Threads :
      /\ calls[i] = (IF w_pc[i] = "bark" THEN TicksDue(i) - 1 ELSE TicksDue(i))
      /\ thunder_calls[i] =
           (IF ~thunder_detector THEN 0
            ELSE IF w_pc[i] \in {"bark", "thunder"} THEN TicksDue(i) - 1
            ELSE TicksDue(i))
      /\ w_pc[i] = "thunder" => thunder_detector
      /\ w_pc[i] \in {"bark", "thunder"} => TicksDue(i) >= 1

\* C29 witness: the second window of a run has had its bark tick and is
\* about to have its thunder tick
OneTickPerHopWitness ==
    /\ thunder_detector
    /\ window_samples = 2
    /\ hop_samples = 1
    /\ \E i \in Threads :
         /\ hops[i] = 3
         /\ w_pc[i] = "thunder"
         /\ calls[i] = 2
         /\ thunder_calls[i] = 1

\* C30 Pipeline independence: a bark tick (debounce, register, gap check)
\* leaves the thunder class's consecutive hits, cooldown_until and open
\* segment unchanged, and a thunder tick leaves the bark class's unchanged.
PipelineIndependence ==
    [][/\ BarkTicked =>
            UNCHANGED <<thunder_consecutive, thunder_cooldown_until,
                        active_thunder_event>>
       /\ ThunderTicked =>
            UNCHANGED <<consecutive, cooldown_until, active_event>>]_vars

\* C30 witness: a thunder tick has just confirmed a pulse and opened a
\* thunder segment while the bark class holds a cooldown not yet over and an
\* open segment begun earlier
PipelineIndependenceWitness ==
    /\ thunder_tick.pulse
    /\ active_thunder_event # None
    /\ active_thunder_event[1].start = clock
    /\ active_event # None
    /\ active_event[1].start < clock
    /\ cooldown_until > clock
    /\ \E i \in Threads : w_pc[i] = "loop" /\ thunder_calls[i] >= 2

\* The configuration with each class's debounce settings set to the other's
AsBark(cfg) ==
    [cfg EXCEPT !.consecutive_required = cfg.thunder_consecutive_required,
                !.cooldown_seconds = cfg.thunder_cooldown_seconds]
AsThunder(cfg) ==
    [cfg EXCEPT !.thunder_consecutive_required = cfg.consecutive_required,
                !.thunder_cooldown_seconds = cfg.cooldown_seconds]

\* What the debouncer and segmenter of a class show after a tick: their
\* state, the pulse and the events finalized so far
Outcome(s) ==
    [consecutive |-> s.consecutive, cooldown_until |-> s.cooldown_until,
     active_event |-> s.active_event, pulse |-> s.pulse, events |-> s.events]

\* One tick from state s takes both copies of the pipeline to the same
\* outcome, under equal settings
SameStep(s, cfg_bark, cfg_thunder) ==
    \A c \in Confidences, positive \in BOOLEAN :
      Outcome(HandleDetection(s, cfg_bark, clock, c, positive))
        = Outcome(HandleThunderDetection(s, cfg_thunder, clock, c, positive))

\* C31 The two copies of the pipeline do not drift: both start in the same
\* state, and from every state either copy reaches, a tick (time,
\* confidence, is_positive) takes the bark handler and the thunder handler,
\* under equal consecutive_required, cooldown_seconds, merge_gap_seconds and
\* window_seconds, to the same state, the same pulse and the same finalized
\* events; so fed the same ticks they stay equal for ever.
NoDrift ==
    /\ started = 0 =>
         /\ consecutive = thunder_consecutive
         /\ cooldown_until = thunder_cooldown_until
         /\ active_event = active_thunder_event
         /\ bark_events = thunder_events
    /\ SameStep(ThunderState, AsBark(config), config)
    /\ SameStep(BarkState, config, AsThunder(config))

\* C31 witness: the thunder copy has finalized an event, holds a segment
\* merged from two pulses and has just confirmed a pulse
NoDriftWitness ==
    /\ thunder_tick.pulse
    /\ Len(thunder_events) >= 1
    /\ active_thunder_event # None
    /\ Len(active_thunder_event[1].confidences) = 2
    /\ thunder_cooldown_until > clock

\* C32 Every opened segment is eventually finalized: once the gap since its
\* last detection exceeds merge_gap_seconds the segment is emitted as a
\* completed event without needing a stop, also when no further audio
\* reaches the analysis loop (intake paused, channel empty or device
\* failing).
OverdueSegmentsClose ==
    /\ Overdue(active_event, clock, config)
         ~> ~Overdue(active_event, clock, config)
    /\ Overdue(active_thunder_event, clock, config)
         ~> ~Overdue(active_thunder_event, clock, config)

\* C33 stop always completes: it waits for each loop only up to a bounded
\* timeout, does not fail when a loop has not exited in time, and when it
\* returns listening is false and the engine holds no stream.
StopCompletes ==
    [][(m_pc # "idle" /\ m_pc' = "idle")
         => /\ ~at_stop'.raised
            /\ ~listening'
            /\ stream' = None]_vars

\* A segment made of one pulse, and the event such a segment gives
SinglePulse(segment) ==
    segment # None =>
      /\ Len(segment[1].confidences) = 1
      /\ segment[1].start = segment[1].last_detection

SinglePulseEvent(e) ==
    /\ e.start_ts = e.end_ts
    /\ e.duration_sec = config.window_seconds
    /\ e.avg_confidence[2] = 1

\* C34 With cooldown_seconds >= merge_gap_seconds and consecutive_required
\* >= 2 and strictly increasing tick times, a segment is never extended:
\* every open segment holds one pulse and every finalized event contains
\* exactly one confirmed pulse, has start_ts = end_ts and duration_sec =
\* window_seconds.
NeverExtended ==
    /\ SinglePulse(active_event)
    /\ SinglePulse(active_thunder_event)
    /\ \A k \in 1..Len(bark_events) : SinglePulseEvent(bark_events[k])
    /\ \A k \in 1..Len(thunder_events) : SinglePulseEvent(thunder_events[k])

\* C34 witness: with the cooldown equal to the merge gap, a second bark
\* pulse came as early as two required positives after the cooldown allow;
\* it closed the first segment and opened its own
NeverExtendedWitness ==
    /\ config.consecutive_required = 2
    /\ config.cooldown_seconds = config.merge_gap_seconds
    /\ Len(bark_events) = 1
    /\ bark_tick.pulse
    /\ bark_tick.emitted = 1
    /\ active_event # None
    /\ active_event[1].start = clock
    /\ clock = 1 + config.cooldown_seconds + 1

\* C35 After any sequence of start, pause, resume and stop calls,
\* stats.listening is true only if a capture loop and an analysis loop are
\* running and intake is not paused (in particular resume called while
\* stopped does not report listening with no loops running).
ListeningMeansRunning ==
    listening =>
      /\ AliveCapture # {}
      /\ AliveAnalysis # {}
      /\ ~pause_evt

\* C36 A chunk enqueued before a stop is never classified after a later
\* start: when a new run begins after a stop whose loops have all exited,
\* the channel holds no chunk that it held when stop() was called.
NoStaleChunks ==
    [][(stop_evt /\ AllExited /\ started' = started + 1)
         => Held(audio_queue') \cap Held(at_stop.queue) = {}]_vars

\* C37 For each class, with consecutive_required >= 1, the count of
\* consecutive positive windows is at least 0 and below the requirement
\* after every tick: the counter never reaches the requirement between
\* ticks, because reaching it emits a pulse and resets it.
CounterBelowRequired ==
    /\ config.consecutive_required >= 1 =>
         consecutive \in 0..(config.consecutive_required - 1)
    /\ config.thunder_consecutive_required >= 1 =>
         thunder_consecutive \in 0..(config.thunder_consecutive_required - 1)

\* The values of a sequence of confidences
Values(cs) == {cs[k] : k \in 1..Len(cs)}

\* The fraction avg = <<sum, count>> is defined and lies between the
\* smallest and the largest of the confidences cs
Between(avg, cs) ==
    /\ avg[2] = Len(cs)
    /\ avg[2] >= 1
    /\ \E lo, hi \in Values(cs) :
         /\ \A x \in Values(cs) : lo <= x /\ x <= hi
         /\ lo * avg[2] <= avg[1]
         /\ avg[1] <= hi * avg[2]

\* A segment with at least one confidence that does not end before it starts
WellFormed(segment) ==
    segment # None =>
      /\ Len(segment[1].confidences) >= 1
      /\ segment[1].start <= segment[1].last_detection

\* What a step may do to the open segment of a class: a tick with a pulse at
\* clock of confidence c either appends c to the segment that was open,
\* keeping its start, or leaves a new segment holding c alone; any other step
\* leaves the segment as it was or closes it
PulseOrder(ticked, tick, segment, segment_after) ==
    IF ticked /\ tick.pulse
    THEN /\ segment_after # None
         /\ segment_after[1].last_detection = clock
         /\ \/ /\ segment # None
               /\ segment_after[1].start = segment[1].start
               /\ segment_after[1].confidences =
                    Append(segment[1].confidences, tick.confidence)
            \/ segment_after = <<NewSegment(clock, tick.confidence)>>
    ELSE segment_after = segment \/ segment_after = None

\* A step that appends an event to a table appends one whose average is taken
\* over the confidences of the segment that was open
AverageOfPulses(events, events_after, segment) ==
    Len(events_after) > Len(events) =>
      /\ Len(events_after) = Len(events) + 1
      /\ segment # None
      /\ Between(events_after[Len(events_after)].avg_confidence,
                 segment[1].confidences)

\* C38 Every open segment is well formed in every reachable state: its
\* confidences are non-empty, hold one entry per confirmed pulse merged into
\* it, in pulse order, and start <= last_detection; hence the average
\* confidence of every finalized event is defined and lies between the
\* smallest and the largest confidence of its pulses.
SegmentsWellFormed ==
    /\ [](WellFormed(active_event) /\ WellFormed(active_thunder_event))
    /\ [][/\ PulseOrder(BarkTicked, bark_tick', active_event, active_event')
          /\ PulseOrder(ThunderTicked, thunder_tick', active_thunder_event,
                        active_thunder_event')
          /\ AverageOfPulses(bark_events, bark_events', active_event)
          /\ AverageOfPulses(thunder_events, thunder_events',
                             active_thunder_event)]_vars

\* An event was written whose segment had merged two pulses of different
\* confidence
SegmentsWellFormedWitness ==
    /\ bark_tick.emitted = 1
    /\ bark_events # << >>
    /\ LET avg == bark_events[Len(bark_events)].avg_confidence
       IN avg[2] = 2 /\ avg[1] = 2 * MaxConfidence - 1

\* A step in which the observer of a class raised: the event was written to
\* the table, by a tick or by stop(), and the finalizer was left by an
\* exception
ObserverRaised(ticked, tick, persisting, events, events_after) ==
    /\ Len(events_after) = Len(events) + 1
    /\ \/ ticked /\ tick.raised
       \/ persisting /\ at_stop'.raised

\* C39 An event is persisted at most once even if the observer callback
\* fails: no table holds more events than segments of its class were opened,
\* and a step in which the observer raised, after the event was written and
\* counted, does not leave the segment open to be written and counted a
\* second time by a later tick or by stop.
PersistedOnce ==
    /\ [](/\ Len(bark_events) <= bark_opened
          /\ Len(thunder_events) <= thunder_opened)
    /\ [][/\ ObserverRaised(BarkTicked, bark_tick', m_pc = "persist",
                            bark_events, bark_events')
            => active_event' = None
          /\ ObserverRaised(ThunderTicked, thunder_tick',
                            m_pc = "persist_thunder", thunder_events,
                            thunder_events')
            => active_thunder_event' = None]_vars


\* The chunks a window holds
WindowChunks(i) == Held(ring[i]) \ {0}

\* C40 Channel order: the analysis loop dequeues chunks in the order the
\* capture callback enqueued them, and every enqueued chunk is inserted into
\* the sliding window at most once.  Chunks are numbered in the order of
\* their delivery: the channel holds them in ascending order, none twice;
\* the chunk a step dequeues is the head of the channel, is removed from it,
\* is later than every chunk any window has received, and is inserted into
\* one window.
ChannelOrder ==
    /\ [](\A j \in 1..(Len(audio_queue) - 1) :
            audio_queue[j] < audio_queue[j + 1])
    /\ [][gets' = gets + 1 =>
            /\ audio_queue # << >>
            /\ audio_queue' = Tail(audio_queue)
            /\ \A i \in Threads : \A c \in WindowChunks(i) :
                 c < Head(audio_queue)
            /\ Cardinality({i \in Threads :
                              ring'[i] # ring[i]
                              /\ Head(audio_queue) \in Held(ring'[i])}) = 1
            /\ \A i \in Threads :
                 ring'[i] # ring[i] =>
                   Held(ring'[i]) \subseteq Held(ring[i]) \cup {Head(audio_queue)}
         ]_vars

\* The loop has dequeued the third chunk that is in its window, after chunks
\* were dropped at a full channel, with later chunks waiting in the channel
ChannelOrderWitness ==
    /\ drops >= 1
    /\ gets >= 3
    /\ Len(audio_queue) >= 2
    /\ \E i \in Threads : 3 \in WindowChunks(i)
=============================================================================
